---- MODULE Spec2Model ----
(***************************************************************************)
(* Model of homelab-cli's inventory-backed allocator, reservation ledger   *)
(* and Terraform allocation passes (src/lib/function.js,                   *)
(* src/lib/terraform.js).                                                  *)
(*                                                                         *)
(* JavaScript strings are modelled as sequences of one-character strings,  *)
(* so that split, parseInt, join and String.prototype.replace are computed *)
(* the way the code computes them.  BigInt values are TLA+ integers; the   *)
(* addresses used as inputs are chosen below 2^31.                          *)
(***************************************************************************)
EXTENDS Integers, Sequences, FiniteSets, TLC

(***************************************************************************)
(* JavaScript built-ins used by the code                                   *)
(***************************************************************************)

\* A JavaScript value that may be undefined is a sequence of length 0 or 1:
\* Undefined is `return;` or a failed lookup, Some(v) a defined value.
Undefined == <<>>

Some(v) == <<v>>

\* JavaScript's NaN, the result of parseInt on a string with no leading digit
\* (parseInt of the unsigned inputs never yields a negative number)
NaN == -1

HexDigits == <<"0", "1", "2", "3", "4", "5", "6", "7", "8", "9", "a", "b", "c", "d", "e", "f">>

\* the character c is a digit of the given radix (10 or 16)
IsDigitIn(c, radix) == \E i \in 1..radix : HexDigits[i] = c

DigitValue(c) == (CHOOSE i \in 1..16 : HexDigits[i] = c) - 1

\* String.prototype.indexOf(sub): 0-based index of the first occurrence, -1 if none
RECURSIVE indexFrom(_, _, _)
indexFrom(s, sub, i) ==
  IF i + Len(sub) - 1 > Len(s) THEN -1
  ELSE IF SubSeq(s, i, i + Len(sub) - 1) = sub THEN i - 1
  ELSE indexFrom(s, sub, i + 1)

indexOf(s, sub) == indexFrom(s, sub, 1)

\* String.prototype.includes(sub)
includes(s, sub) == indexOf(s, sub) # -1

\* String.prototype.split(sep) for a non-empty separator: the pieces between
\* the occurrences of sep, empty pieces included
RECURSIVE split(_, _)
split(s, sep) ==
  LET i == indexOf(s, sep)
  IN IF i = -1 THEN <<s>>
     ELSE <<SubSeq(s, 1, i)>> \o split(SubSeq(s, i + Len(sep) + 1, Len(s)), sep)

\* Array.prototype.join(sep)
RECURSIVE join(_, _)
join(parts, sep) ==
  IF Len(parts) = 0 THEN <<>>
  ELSE IF Len(parts) = 1 THEN parts[1]
  ELSE parts[1] \o sep \o join(Tail(parts), sep)

\* String.prototype.replace(pattern, replacement) with a string pattern:
\* only the first occurrence is replaced
replaceFirst(s, pat, repl) ==
  LET i == indexOf(s, pat)
  IN IF i = -1 THEN s
     ELSE SubSeq(s, 1, i) \o repl \o SubSeq(s, i + Len(pat) + 1, Len(s))

\* String.prototype.replace(/"/g, ''): every occurrence of the character removed
removeAll(s, c) == SelectSeq(s, LAMBDA x : x # c)

\* parseInt(s, radix): the value of the longest prefix of digits of the radix,
\* NaN when the string does not start with such a digit (the inputs carry no
\* leading white space, sign or 0x prefix)
RECURSIVE parseIntFrom(_, _, _)
parseIntFrom(s, radix, acc) ==
  IF Len(s) = 0 \/ ~IsDigitIn(s[1], radix) THEN acc
  ELSE parseIntFrom(Tail(s), radix, acc * radix + DigitValue(s[1]))

parseInt(s, radix) ==
  IF Len(s) = 0 \/ ~IsDigitIn(s[1], radix) THEN NaN ELSE parseIntFrom(s, radix, 0)

\* Number.prototype.toString(radix) of a non-negative integer
RECURSIVE numToString(_, _)
numToString(n, radix) ==
  IF n < radix THEN <<HexDigits[n + 1]>>
  ELSE numToString(n \div radix, radix) \o <<HexDigits[(n % radix) + 1]>>

\* one decimal octet as net.isIP accepts it: 0..255 without a leading zero
IsV4Octet(p) ==
  /\ Len(p) \in 1..3
  /\ \A i \in 1..Len(p) : IsDigitIn(p[i], 10)
  /\ (Len(p) > 1 => p[1] # "0")
  /\ parseIntFrom(p, 10, 0) <= 255

\* one group of an IPv6 address: 1 to 4 hexadecimal digits
IsV6Group(p) ==
  /\ Len(p) \in 1..4
  /\ \A i \in 1..Len(p) : IsDigitIn(p[i], 16)

\* the groups of one side of a "::" (an empty side has no group)
V6Side(s) == IF Len(s) = 0 THEN <<>> ELSE split(s, <<":">>)

\* net.isIP(s): 4, 6 or 0 (addresses with an embedded IPv4 part or a zone
\* index are not among the inputs)
isIP(s) ==
  LET quad == split(s, <<".">>)
      halves == split(s, <<":", ":">>)
      groups == split(s, <<":">>)
  IN IF Len(quad) = 4 /\ \A i \in 1..4 : IsV4Octet(quad[i]) THEN 4
     ELSE IF Len(halves) = 1
       THEN IF Len(groups) = 8 /\ \A i \in 1..8 : IsV6Group(groups[i]) THEN 6 ELSE 0
     ELSE IF Len(halves) = 2
       THEN LET l == V6Side(halves[1])
                r == V6Side(halves[2])
            IN IF /\ Len(l) + Len(r) <= 7
                  /\ \A i \in 1..Len(l) : IsV6Group(l[i])
                  /\ \A i \in 1..Len(r) : IsV6Group(r[i])
               THEN 6 ELSE 0
     ELSE 0

(***************************************************************************)
(* String literals                                                         *)
(***************************************************************************)

baremetal == <<"b", "a", "r", "e", "m", "e", "t", "a", "l">>

vm == <<"v", "m">>

lxc == <<"l", "x", "c">>

template == <<"t", "e", "m", "p", "l", "a", "t", "e">>

\* a type name that is no key of ranges
bogus == <<"p", "c">>

(***************************************************************************)
(* Results of a call: the error thrown ("" when the call returned), the    *)
(* value returned and the inventory object after the call (the functions   *)
(* receive the inventory by reference).                                    *)
(***************************************************************************)

Return(v, inventory) == [thrown |-> "", ret |-> Some(v), inv |-> inventory]

ReturnUndefined(inventory) == [thrown |-> "", ret |-> Undefined, inv |-> inventory]

Throw(e, inventory) == [thrown |-> e, ret |-> Undefined, inv |-> inventory]

(***************************************************************************)
(* Resource allocator (src/lib/function.js)                                *)
(***************************************************************************)

\* const ranges = { baremetal: [0, 99], vm: [100, 199], lxc: [200, 299], template: [300, 399] }
ranges ==
  (baremetal :> <<0, 99>>) @@ (vm :> <<100, 199>>) @@ (lxc :> <<200, 299>>) @@ (template :> <<300, 399>>)

\* a used set that forgets the templates
usedVmIds_ReservedOnly(inventory) ==
  {inventory.reserved.vmids[i].vmid : i \in 1..Len(inventory.reserved.vmids)}

\* the Set `used` of getNextVmId: every templates[].vmid and reserved.vmids[].vmid
usedVmIds(inventory) ==
  {inventory.templates[i].vmid : i \in 1..Len(inventory.templates)}
    \cup {inventory.reserved.vmids[i].vmid : i \in 1..Len(inventory.reserved.vmids)}

RECURSIVE scanVmIds(_, _, _)

\* a scan that never tests the used set
scanVmIds_NoSkip(id, hi, used) ==
  IF id > hi THEN Undefined ELSE Some(id)

\* for (let id = range[0]; id <= range[1]; id++) if (!used.has(id)) return id;
\* Undefined when the loop runs to its end
scanVmIds(id, hi, used) ==
  IF id > hi THEN Undefined
  ELSE IF id \notin used THEN Some(id)
  ELSE scanVmIds(id + 1, hi, used)

\* an allocator that records what it hands out in the inventory
getNextVmId_Reserving(type, inventory) ==
  IF type \notin DOMAIN ranges THEN Throw("UnknownType", inventory)
  ELSE LET range == ranges[type]
           found == scanVmIds(range[1], range[2], usedVmIds(inventory))
       IN IF found = Undefined THEN Throw("NoAvailableVmid", inventory)
          ELSE Return(found[1],
                      [inventory EXCEPT !.reserved.vmids =
                         Append(@, [vmid |-> found[1], refId |-> <<>>])])

\* getNextVmId(type, inventory): the first ID of the type's range that is not used
getNextVmId(type, inventory) ==
  IF type \notin DOMAIN ranges THEN Throw("UnknownType", inventory)
  ELSE LET range == ranges[type]
           found == scanVmIds(range[1], range[2], usedVmIds(inventory))
       IN IF found = Undefined THEN Throw("NoAvailableVmid", inventory)
          ELSE Return(found[1], inventory)

\* BigInt(parseInt(...)) throws a RangeError on NaN; the converters below
\* yield NaN in that case and getNextIpAddress turns it into the throw
RECURSIVE reduceBig(_, _, _, _)
reduceBig(parts, radix, shift, acc) ==
  IF Len(parts) = 0 THEN acc
  ELSE LET part == parseInt(parts[1], radix)
       IN IF part = NaN THEN NaN
          ELSE reduceBig(Tail(parts), radix, shift, acc * shift + part)

\* ip.split('.').reduce((acc, octet) => (acc << 8n) + BigInt(parseInt(octet, 10)), 0n)
ipv4ToBig(ip) == reduceBig(split(ip, <<".">>), 10, 256, 0)

bigToIpv4(n) ==
  join(<<numToString((n \div 16777216) % 256, 10),
         numToString((n \div 65536) % 256, 10),
         numToString((n \div 256) % 256, 10),
         numToString(n % 256, 10)>>, <<".">>)

\* left ? left.split(':').filter(Boolean) : []
ipv6Side(s) ==
  IF Len(s) = 0 THEN <<>> ELSE SelectSeq(split(s, <<":">>), LAMBDA p : Len(p) > 0)

\* parts.map(p => p || '0')
orZero(parts) == [i \in 1..Len(parts) |-> IF Len(parts[i]) = 0 THEN <<"0">> ELSE parts[i]]

\* Undefined when Array(zeros) throws for a negative length
expandIpv6(ip) ==
  IF includes(ip, <<":", ":">>)
  THEN LET halves == split(ip, <<":", ":">>)
           l == ipv6Side(halves[1])
           r == ipv6Side(halves[2])
           zeros == 8 - (Len(l) + Len(r))
       IN IF zeros < 0 THEN Undefined
          ELSE Some(orZero(l \o [i \in 1..zeros |-> <<"0">>] \o r))
  ELSE Some(orZero(split(ip, <<":">>)))

ipv6ToBig(ip) ==
  LET parts == expandIpv6(ip)
  IN IF parts = Undefined THEN NaN ELSE reduceBig(parts[1], 16, 65536, 0)

\* eight groups, lowest first, each printed by toString(16); the trailing
\* replace() substitutes every match by itself and changes nothing
RECURSIVE ipv6Groups(_, _)
ipv6Groups(n, i) ==
  IF i = 0 THEN <<>>
  ELSE ipv6Groups(n \div 65536, i - 1) \o <<numToString(n % 65536, 16)>>

bigToIpv6(n) == join(ipv6Groups(n, 8), <<":">>)

toBig(version, ip) == IF version = 4 THEN ipv4ToBig(ip) ELSE ipv6ToBig(ip)

\* (inventory.networks || []).find(n => n.name === networkName)
findNetwork(networkName, inventory) ==
  LET hits == {i \in 1..Len(inventory.networks) : inventory.networks[i].name = networkName}
  IN IF hits = {} THEN Undefined
     ELSE Some(inventory.networks[CHOOSE i \in hits : \A j \in hits : i <= j])

\* the prefix length of netCfg.subnet ('10.88.1.0/24'), Undefined when there is none
prefixLenOf(netCfg) ==
  IF includes(netCfg.subnet, <<"/">>)
  THEN LET parts == split(netCfg.subnet, <<"/">>)
       IN IF Len(parts) = 2 /\ Len(parts[2]) > 0 THEN Some(parts[2]) ELSE Undefined
  ELSE Undefined

\* the interfaces whose address getNextIpAddress adds to `used`, in order
hostIfaces(networkName, inventory) ==
  LET RECURSIVE flat(_)
      flat(hs) == IF Len(hs) = 0 THEN <<>> ELSE hs[1].interfaces \o flat(Tail(hs))
  IN SelectSeq(flat(inventory.hosts),
               LAMBDA iface : iface.network = networkName /\ Len(iface.ip) > 0 /\ isIP(iface.ip) # 0)

\* the BigInt values put into `used`: gateway, dns, then the hosts' addresses
\* (NaN stands for a conversion that throws)
usedIpValues(version, netCfg, networkName, inventory) ==
  LET ifaces == hostIfaces(networkName, inventory)
  IN (IF Len(netCfg.gateway) > 0 THEN <<toBig(version, netCfg.gateway)>> ELSE <<>>)
       \o (IF Len(netCfg.dns) > 0 THEN <<toBig(version, netCfg.dns)>> ELSE <<>>)
       \o [i \in 1..Len(ifaces) |-> toBig(version, ifaces[i].ip)]

\* for (let ipBig = startBig; ipBig <= endBig; ipBig++) if (!used.has(ipBig)) ...
RECURSIVE scanIps(_, _, _)
scanIps(ipBig, endBig, used) ==
  IF ipBig > endBig THEN Undefined
  ELSE IF ipBig \notin used THEN Some(ipBig)
  ELSE scanIps(ipBig + 1, endBig, used)

\* getNextIpAddress with the scan of the range before the checks of the range
getNextIpAddress_ScanFirst(networkName, inventory) ==
  LET found == findNetwork(networkName, inventory)
  IN IF found = Undefined THEN Throw("NetworkNotFound", inventory)
     ELSE
  LET netCfg == found[1]
      startIp == netCfg.static_range.start
      endIp == netCfg.static_range.end
      version == isIP(startIp)
      usedSeq == usedIpValues(version, netCfg, networkName, inventory)
  IN IF \E i \in 1..Len(usedSeq) : usedSeq[i] = NaN THEN Throw("RangeError", inventory)
     ELSE IF Len(startIp) = 0 \/ Len(endIp) = 0 THEN Throw("InvalidStaticRange", inventory)
     ELSE IF version = 0 \/ version # isIP(endIp) THEN Throw("InvalidIpVersion", inventory)
     ELSE
  LET startBig == toBig(version, startIp)
      endBig == toBig(version, endIp)
      free == scanIps(startBig, endBig, {usedSeq[i] : i \in 1..Len(usedSeq)})
  IN IF free = Undefined THEN Throw("NoAvailableIp", inventory)
     ELSE IF startBig > endBig THEN Throw("StartGreaterThanEnd", inventory)
     ELSE
  LET ipStr == IF version = 4 THEN bigToIpv4(free[1]) ELSE bigToIpv6(free[1])
      prefixLen == prefixLenOf(netCfg)
  IN Return(IF prefixLen = Undefined THEN ipStr ELSE ipStr \o <<"/">> \o prefixLen[1], inventory)

getNextIpAddress(networkName, inventory) ==
  LET found == findNetwork(networkName, inventory)
  IN IF found = Undefined THEN Throw("NetworkNotFound", inventory)
     ELSE
  LET netCfg == found[1]
      startIp == netCfg.static_range.start
      endIp == netCfg.static_range.end
  IN IF Len(startIp) = 0 \/ Len(endIp) = 0 THEN Throw("InvalidStaticRange", inventory)
     ELSE
  LET version == isIP(startIp)
  IN IF version = 0 \/ version # isIP(endIp) THEN Throw("InvalidIpVersion", inventory)
     ELSE
  LET startBig == toBig(version, startIp)
      endBig == toBig(version, endIp)
  IN IF startBig > endBig THEN Throw("StartGreaterThanEnd", inventory)
     ELSE
  LET prefixLen == prefixLenOf(netCfg)
      usedSeq == usedIpValues(version, netCfg, networkName, inventory)
  IN IF \E i \in 1..Len(usedSeq) : usedSeq[i] = NaN THEN Throw("RangeError", inventory)
     ELSE
  LET free == scanIps(startBig, endBig, {usedSeq[i] : i \in 1..Len(usedSeq)})
  IN IF free = Undefined THEN Throw("NoAvailableIp", inventory)
     ELSE
  LET ipStr == IF version = 4 THEN bigToIpv4(free[1]) ELSE bigToIpv6(free[1])
  IN Return(IF prefixLen = Undefined THEN ipStr ELSE ipStr \o <<"/">> \o prefixLen[1], inventory)

(***************************************************************************)
(* Reservation ledger (src/lib/function.js).  loadInventory's schema makes *)
(* `reserved` a required object, so the inventories have one and the       *)
(* `!inventory.reserved` branches are not taken.                           *)
(***************************************************************************)

\* Array.prototype.findIndex(e => e.refId == refId): 0-based, -1 when absent
findIndex(list, refId) ==
  LET hits == {i \in 1..Len(list) : list[i].refId = refId}
  IN IF hits = {} THEN -1 ELSE (CHOOSE i \in hits : \A j \in hits : i <= j) - 1

\* Array.prototype.splice(index, 1)
splice1(list, index) == SubSeq(list, 1, index) \o SubSeq(list, index + 2, Len(list))

\* inventory.reserved.vmids.push({ vmid, refId }); return vmid;
\* next is the outcome of getNextVmId, whose error leaves the function
pushVmId(next, refId) ==
  IF next.thrown # "" THEN next
  ELSE Return(next.ret[1],
              [next.inv EXCEPT !.reserved.vmids =
                 Append(@, [vmid |-> next.ret[1], refId |-> refId])])

\* a reserve that allocates without looking the refId up
reserveVmId_NoLookup(type, inventory, refId) ==
  pushVmId(getNextVmId(type, inventory), refId)

\* reserveVmId(type, inventory, refId): the entry of refId, or a new one
reserveVmId(type, inventory, refId) ==
  LET index == findIndex(inventory.reserved.vmids, refId)
  IN IF index # -1 THEN Return(inventory.reserved.vmids[index + 1].vmid, inventory)
     ELSE pushVmId(getNextVmId(type, inventory), refId)

\* a release that removes the newest entry instead of the one found
releaseVmId_Pop(inventory, refId) ==
  IF Len(inventory.reserved.vmids) = 0 THEN ReturnUndefined(inventory)
  ELSE LET index == findIndex(inventory.reserved.vmids, refId)
       IN IF index = -1 THEN Throw("TypeError", inventory)
          ELSE Return(inventory.reserved.vmids[index + 1].vmid,
                      [inventory EXCEPT !.reserved.vmids = SubSeq(@, 1, Len(@) - 1)])

\* reads vmids[index].vmid before testing index: with index -1 the element is
\* undefined and the property read throws a TypeError
releaseVmId(inventory, refId) ==
  IF Len(inventory.reserved.vmids) = 0 THEN ReturnUndefined(inventory)
  ELSE LET index == findIndex(inventory.reserved.vmids, refId)
       IN IF index = -1 THEN Throw("TypeError", inventory)
          ELSE Return(inventory.reserved.vmids[index + 1].vmid,
                      [inventory EXCEPT !.reserved.vmids = splice1(@, index)])

\* inventory.reserved.ips.push({ ip, refId }); return ip;
\* next is the outcome of getNextIpAddress, whose error leaves the function
pushIp(next, refId) ==
  IF next.thrown # "" THEN next
  ELSE Return(next.ret[1],
              [next.inv EXCEPT !.reserved.ips =
                 Append(@, [ip |-> next.ret[1], refId |-> refId])])

\* a reserve that allocates without looking the refId up
reserveIpAddress_NoLookup(networkName, inventory, refId) ==
  pushIp(getNextIpAddress(networkName, inventory), refId)

\* reserveIpAddress(networkName, inventory, refId): the entry of refId, or a new one
reserveIpAddress(networkName, inventory, refId) ==
  LET index == findIndex(inventory.reserved.ips, refId)
  IN IF index # -1 THEN Return(inventory.reserved.ips[index + 1].ip, inventory)
     ELSE pushIp(getNextIpAddress(networkName, inventory), refId)

\* no length test here: ips[index].ip is read for index -1 also when the list is empty
releaseIpAddress(inventory, refId) ==
  LET index == findIndex(inventory.reserved.ips, refId)
  IN IF index = -1 THEN Throw("TypeError", inventory)
     ELSE Return(inventory.reserved.ips[index + 1].ip,
                 [inventory EXCEPT !.reserved.ips = splice1(@, index)])

(***************************************************************************)
(* Inventories                                                             *)
(***************************************************************************)

\* number of distinct labels the reference tokens are built from
NumLabels == 2

Letters == <<"a", "b", "c", "d", "e", "f">>

\* the VM-ID token <type>:id:<label>
vmRef(type, i) == type \o <<":", "i", "d", ":">> \o <<Letters[i]>>

\* the IP token ip:<network>:<label>
ipRef(networkName, i) == <<"i", "p", ":">> \o networkName \o <<":">> \o <<Letters[i]>>

lan == <<"l", "a", "n">>

dmz == <<"d", "m", "z">>

six == <<"s", "i", "x">>

wrap == <<"w", "r", "a", "p">>

dual == <<"d", "u", "a", "l">>

hexa == <<"h", "e", "x", "a">>

nonet == <<"n", "o", "n", "e", "t">>

\* scenario A: 10.0.0.2 - 10.0.0.4, gateway and dns outside the range, no prefix length
lanNet ==
  [name |-> lan, subnet |-> <<"1", "0", ".", "0", ".", "0", ".", "0">>, gateway |-> <<"1", "0", ".", "0", ".", "0", ".", "1">>, dns |-> <<"1", "0", ".", "0", ".", "0", ".", "1">>,
   static_range |-> [start |-> <<"1", "0", ".", "0", ".", "0", ".", "2">>, end |-> <<"1", "0", ".", "0", ".", "0", ".", "4">>]]

\* scenario C: a range of one address
dmzNet ==
  [name |-> dmz, subnet |-> <<"1", "0", ".", "0", ".", "1", ".", "0", "/", "2", "4">>, gateway |-> <<"1", "0", ".", "0", ".", "1", ".", "1">>, dns |-> <<"1", "0", ".", "0", ".", "1", ".", "2">>,
   static_range |-> [start |-> <<"1", "0", ".", "0", ".", "1", ".", "5">>, end |-> <<"1", "0", ".", "0", ".", "1", ".", "5">>]]

\* an IPv6 network whose gateway and dns lie inside the range
sixNet ==
  [name |-> six, subnet |-> <<":", ":", "/", "6", "4">>, gateway |-> <<":", ":", "a">>, dns |-> <<"0", ":", "0", ":", "0", ":", "0", ":", "0", ":", "0", ":", "0", ":", "c">>,
   static_range |-> [start |-> <<":", ":", "a">>, end |-> <<":", ":", "d">>]]

\* a range that crosses an octet boundary, gateway inside the range
wrapNet ==
  [name |-> wrap, subnet |-> <<"1", "0", ".", "0", ".", "2", ".", "0", "/", "2", "3">>, gateway |-> <<"1", "0", ".", "0", ".", "2", ".", "2", "5", "5">>, dns |-> <<"1", "0", ".", "0", ".", "2", ".", "1">>,
   static_range |-> [start |-> <<"1", "0", ".", "0", ".", "2", ".", "2", "5", "5">>, end |-> <<"1", "0", ".", "0", ".", "3", ".", "1">>]]

\* an IPv4 range on a network whose gateway is an IPv6 address
dualNet ==
  [name |-> dual, subnet |-> <<"1", "0", ".", "0", ".", "4", ".", "0", "/", "2", "4">>, gateway |-> <<"f", "d", "0", "0", ":", ":", "1">>, dns |-> <<"1", "0", ".", "0", ".", "4", ".", "1">>,
   static_range |-> [start |-> <<"1", "0", ".", "0", ".", "4", ".", "2">>, end |-> <<"1", "0", ".", "0", ".", "4", ".", "3">>]]

\* an IPv6 range on a network whose gateway is an IPv4 address
hexaNet ==
  [name |-> hexa, subnet |-> <<":", ":", "/", "6", "4">>, gateway |-> <<"1", "0", ".", "0", ".", "0", ".", "1">>, dns |-> <<":", ":", "1">>,
   static_range |-> [start |-> <<":", ":", "1", "0">>, end |-> <<":", ":", "1", "2">>]]

\* a static_range without end
openNet ==
  [name |-> <<"o", "p", "e", "n">>, subnet |-> <<"1", "0", ".", "0", ".", "5", ".", "0", "/", "2", "4">>, gateway |-> <<"1", "0", ".", "0", ".", "5", ".", "1">>, dns |-> <<"1", "0", ".", "0", ".", "5", ".", "1">>,
   static_range |-> [start |-> <<"1", "0", ".", "0", ".", "5", ".", "2">>, end |-> Undefined]]

\* a static_range from an IPv4 to an IPv6 address
mixedNet ==
  [name |-> <<"m", "i", "x", "e", "d">>, subnet |-> <<"1", "0", ".", "0", ".", "6", ".", "0", "/", "2", "4">>, gateway |-> <<"1", "0", ".", "0", ".", "6", ".", "1">>, dns |-> <<"1", "0", ".", "0", ".", "6", ".", "1">>,
   static_range |-> [start |-> <<"1", "0", ".", "0", ".", "6", ".", "2">>, end |-> <<":", ":", "6">>]]

\* a static_range whose start is no address
junkNet ==
  [name |-> <<"j", "u", "n", "k">>, subnet |-> <<"1", "0", ".", "0", ".", "7", ".", "0", "/", "2", "4">>, gateway |-> <<"1", "0", ".", "0", ".", "7", ".", "1">>, dns |-> <<"1", "0", ".", "0", ".", "7", ".", "1">>,
   static_range |-> [start |-> <<"1", "0", ".", "0", ".", "7">>, end |-> <<"1", "0", ".", "0", ".", "7", ".", "9">>]]

\* a static_range whose start is above its end, on a network with an IPv6 gateway
backNet ==
  [name |-> <<"b", "a", "c", "k">>, subnet |-> <<"1", "0", ".", "0", ".", "8", ".", "0", "/", "2", "4">>, gateway |-> <<"f", "d", "0", "0", ":", ":", "1">>, dns |-> <<"1", "0", ".", "0", ".", "8", ".", "1">>,
   static_range |-> [start |-> <<"1", "0", ".", "0", ".", "8", ".", "9">>, end |-> <<"1", "0", ".", "0", ".", "8", ".", "3">>]]

iface(networkName, ip) == [network |-> networkName, ip |-> ip]

host(i, vmid, type, interfaces) ==
  [name |-> <<"h", Letters[i]>>, vmid |-> vmid, type |-> type, interfaces |-> interfaces]

templateEntry(vmid) ==
  [name |-> <<"t">> \o numToString(vmid, 10), version |-> <<"1">>, vmid |-> vmid]

\* one template per ID of lo..hi, in ascending order
templatesOf(lo, hi) == [i \in 1..(hi - lo + 1) |-> templateEntry(lo + i - 1)]

\* the subsequences of pool (order kept) of at most n elements
RECURSIVE subSeqs(_, _)
subSeqs(pool, n) ==
  IF Len(pool) = 0 \/ n = 0 THEN {<<>>}
  ELSE subSeqs(Tail(pool), n) \cup {<<pool[1]>> \o t : t \in subSeqs(Tail(pool), n - 1)}

\* the first k elements of a sequence, and the rest
take(seq, k) == IF k >= Len(seq) THEN seq ELSE SubSeq(seq, 1, k)

drop(seq, k) == IF k >= Len(seq) THEN <<>> ELSE SubSeq(seq, k + 1, Len(seq))

emptyReserved == [vmids |-> <<>>, ips |-> <<>>]

(***************************************************************************)
(* State                                                                   *)
(***************************************************************************)

VARIABLES
  inventory,        \* the inventory object handed to the allocator and the ledger
  last,             \* the latest call on it: operation, arguments, outcome, inventory before,
                    \* and the number n of calls made so far
  tfInventory,      \* Terraform: this.inventory
  strConfig,        \* Terraform: the serialized configuration being rewritten
  newInventory,     \* Terraform: this.newInventory
  deletedInventory, \* Terraform: this.deletedInventory
  destroy,          \* Terraform: the destroy flag of init()
  tfPc,             \* Terraform: the next step of the run
  file,             \* the inventory file on disk
  fileAtStart,      \* the inventory file when the current run started
  config,           \* Terraform: this.config
  manifest,         \* the configuration the current run was started with
  effects,          \* the external commands of the current run, each with its outcome
  runs,             \* the number of operations started on the inventory file so far
  bindings,         \* the token bindings of the earlier runs whose apply succeeded
  pkPc,             \* Packer: the next step of the run
  pkInventory,      \* Packer: this.inventory
  pkConfig,         \* Packer: this.config
  refs,             \* a reference pass called directly: its arguments and its outcome
  race,             \* two Terraform runs working on one inventory file
  isoPoll,          \* Packer: the progress of ensureIsoOnProxmox
  vault,            \* the progress of populateBitwardenRefs and the vault calls it made
  hostIp            \* Packer: getHttpIp called directly, its arguments and its outcome

vars ==
  <<inventory, last, tfInventory, strConfig, newInventory, deletedInventory, destroy, tfPc,
    file, fileAtStart, config, manifest, effects, runs, bindings, pkPc, pkInventory, pkConfig,
    refs, race, isoPoll, vault, hostIp>>

ledgerVars == <<inventory, last>>

tfVars == <<tfInventory, strConfig, newInventory, deletedInventory, destroy, tfPc>>

pkVars == <<pkPc, pkInventory, pkConfig>>

runVars == <<file, fileAtStart, config, manifest, effects, runs, bindings, pkVars>>

partVars == <<refs, race, isoPoll, vault, hostIp>>

\* an inventory object without content
blankInventory ==
  [proxmox |-> Undefined, terraform |-> Undefined, hosts |-> <<>>, templates |-> <<>>,
   networks |-> <<>>, reserved |-> emptyReserved]

\* no part of a workflow is looked at on its own
NoPart ==
  /\ refs = <<>>
  /\ race = <<>>
  /\ isoPoll = <<>>
  /\ vault = <<>>
  /\ hostIp = <<>>

\* no invocation of tf-operations.js or packer-build.js has been made
NoWorkflow ==
  /\ file = [kind |-> "missing", data |-> blankInventory]
  /\ fileAtStart = file
  /\ config = <<>>
  /\ manifest = <<>>
  /\ effects = <<>>
  /\ runs = 0
  /\ bindings = {}
  /\ pkPc = "idle"
  /\ pkInventory = blankInventory
  /\ pkConfig = <<>>

\* no workflow is run: the allocator, the ledger or the passes are called directly
NoRun == NoWorkflow /\ NoPart

\* a returned value as the record of a call keeps it: a number (a VM ID) or a
\* string (an address), each Undefined or Some(v)
Num(v) == [num |-> v, str |-> Undefined]

Str(v) == [num |-> Undefined, str |-> v]

NoCall(inv) ==
  [op |-> "none", arg |-> <<>>, refId |-> <<>>, thrown |-> "", ret |-> Num(Undefined), pre |-> inv, n |-> 0]

\* the record of a call with outcome r made on the current inventory
Call(op, arg, refId, r) ==
  [op |-> op, arg |-> arg, refId |-> refId, thrown |-> r.thrown,
   ret |-> IF op \in {"getNextVmId", "reserveVmId", "releaseVmId"} THEN Num(r.ret) ELSE Str(r.ret),
   pre |-> inventory, n |-> last.n + 1]

(***************************************************************************)
(* The allocator as called directly: inventories drawn from bounded sets   *)
(***************************************************************************)

\* the number of direct allocator calls explored from one inventory
MaxAllocCalls == 2

\* the most interfaces a generated host carries
MaxIfaces == 2

\* the most entries of a generated templates or reserved.vmids list
MaxIds == 2

AllNetworks ==
  <<lanNet, dmzNet, sixNet, wrapNet, dualNet, hexaNet, openNet, mixedNet, junkNet, backNet>>

NetworkNames ==
  {lan, dmz, six, wrap, dual, hexa, nonet, openNet.name, mixedNet.name, junkNet.name, backNet.name}

TypeNames == {baremetal, vm, lxc, template, bogus}

IfacePool ==
  <<iface(lan, <<"1", "0", ".", "0", ".", "0", ".", "2">>), iface(lan, <<"1", "0", ".", "0", ".", "0", ".", "3">>), iface(lan, <<"1", "0", ".", "0", ".", "0", ".", "4">>),
    iface(dmz, <<"1", "0", ".", "0", ".", "1", ".", "5">>), iface(dmz, <<"1", "0", ".", "0", ".", "0", ".", "2">>), iface(six, <<":", ":", "b">>),
    iface(wrap, <<"1", "0", ".", "0", ".", "3", ".", "0">>), iface(lan, <<"f", "e", "8", "0", ":", ":", "1">>), iface(hexa, <<":", ":", "1", "1">>)>>

TemplateIdPool == <<100, 101, 300, 399>>

ReservedIdPool == <<0, 102, 200, 301>>

reservedVmidsOf(ids) == [i \in 1..Len(ids) |-> [vmid |-> ids[i], refId |-> vmRef(vm, i)]]

\* inventories that vary the hosts, and inventories that vary the used VM IDs,
\* among them some with a whole range, or all of it but one ID, taken
AllocInventories ==
  {[hosts |-> <<host(1, 100, vm, take(ifs, k)), host(2, 200, lxc, drop(ifs, k))>>,
    templates |-> <<>>, networks |-> AllNetworks, reserved |-> emptyReserved] :
      ifs \in subSeqs(IfacePool, MaxIfaces), k \in 0..1}
  \cup
  {[hosts |-> <<>>, templates |-> fill \o [i \in 1..Len(t) |-> templateEntry(t[i])],
    networks |-> AllNetworks, reserved |-> [vmids |-> reservedVmidsOf(r), ips |-> <<>>]] :
      t \in subSeqs(TemplateIdPool, MaxIds), r \in subSeqs(ReservedIdPool, MaxIds),
      fill \in {<<>>, templatesOf(100, 199), templatesOf(201, 299), templatesOf(300, 398)}}

InitAlloc ==
  /\ inventory \in AllocInventories
  /\ last = NoCall(inventory)
  /\ tfInventory = inventory
  /\ strConfig = <<>>
  /\ newInventory = emptyReserved
  /\ deletedInventory = emptyReserved
  /\ destroy = FALSE
  /\ tfPc = "idle"
  /\ NoRun

GetNextVmId(type) ==
  /\ last.n < MaxAllocCalls
  /\ \E r \in {getNextVmId(type, inventory)} :
     /\ inventory' = r.inv
     /\ last' = Call("getNextVmId", type, <<>>, r)
  /\ UNCHANGED <<partVars, tfVars, runVars>>

GetNextIpAddress(networkName) ==
  /\ last.n < MaxAllocCalls
  /\ \E r \in {getNextIpAddress(networkName, inventory)} :
     /\ inventory' = r.inv
     /\ last' = Call("getNextIpAddress", networkName, <<>>, r)
  /\ UNCHANGED <<partVars, tfVars, runVars>>

NextAlloc ==
  \/ \E type \in TypeNames : GetNextVmId(type)
  \/ \E networkName \in NetworkNames : GetNextIpAddress(networkName)

SpecAlloc == InitAlloc /\ [][NextAlloc]_vars

(***************************************************************************)
(* The reservation ledger: sequences of reserve and release calls on one   *)
(* inventory object                                                        *)
(***************************************************************************)

\* the number of ledger calls explored from one inventory
MaxCalls == 4

LedgerTypes == {vm, template}

LedgerNetworks == {lan, dmz}

VmRefIds == {vmRef(vm, i) : i \in 1..NumLabels}

IpRefIds == {ipRef(lan, i) : i \in 1..NumLabels}

LedgerNetworkList == <<lanNet, dmzNet>>

\* the address of scenario C's one-address range is taken by a host
busyHosts == <<host(1, 100, vm, <<iface(dmz, <<"1", "0", ".", "0", ".", "1", ".", "5">>), iface(lan, <<"1", "0", ".", "0", ".", "0", ".", "2">>)>>)>>

\* the inventories the call sequences start from: reserved lists as earlier
\* runs leave them (one entry per refId, VM IDs distinct and none a template's)
LedgerInventories ==
  {[hosts |-> <<>>, templates |-> <<templateEntry(300)>>, networks |-> LedgerNetworkList,
    reserved |-> emptyReserved],
   [hosts |-> <<>>, templates |-> <<templateEntry(300)>>, networks |-> LedgerNetworkList,
    reserved |-> [vmids |-> <<[vmid |-> 100, refId |-> vmRef(vm, 1)]>>,
                  ips |-> <<[ip |-> <<"1", "0", ".", "0", ".", "0", ".", "2">>, refId |-> ipRef(lan, 1)]>>]],
   [hosts |-> busyHosts, templates |-> templatesOf(100, 198), networks |-> LedgerNetworkList,
    reserved |-> emptyReserved],
   [hosts |-> busyHosts, templates |-> templatesOf(300, 399), networks |-> LedgerNetworkList,
    reserved |-> [vmids |-> <<[vmid |-> 101, refId |-> vmRef(vm, 2)]>>, ips |-> <<>>]]}

Init ==
  /\ inventory \in LedgerInventories
  /\ last = NoCall(inventory)
  /\ tfInventory = inventory
  /\ strConfig = <<>>
  /\ newInventory = emptyReserved
  /\ deletedInventory = emptyReserved
  /\ destroy = FALSE
  /\ tfPc = "idle"
  /\ NoRun

ReserveVmId(type, refId) ==
  /\ last.n < MaxCalls
  /\ \E r \in {reserveVmId(type, inventory, refId)} :
     /\ inventory' = r.inv
     /\ last' = Call("reserveVmId", type, refId, r)
  /\ UNCHANGED <<partVars, tfVars, runVars>>

ReleaseVmId(refId) ==
  /\ last.n < MaxCalls
  /\ \E r \in {releaseVmId(inventory, refId)} :
     /\ inventory' = r.inv
     /\ last' = Call("releaseVmId", <<>>, refId, r)
  /\ UNCHANGED <<partVars, tfVars, runVars>>

ReserveIpAddress(networkName, refId) ==
  /\ last.n < MaxCalls
  /\ \E r \in {reserveIpAddress(networkName, inventory, refId)} :
     /\ inventory' = r.inv
     /\ last' = Call("reserveIpAddress", networkName, refId, r)
  /\ UNCHANGED <<partVars, tfVars, runVars>>

ReleaseIpAddress(refId) ==
  /\ last.n < MaxCalls
  /\ \E r \in {releaseIpAddress(inventory, refId)} :
     /\ inventory' = r.inv
     /\ last' = Call("releaseIpAddress", <<>>, refId, r)
  /\ UNCHANGED <<partVars, tfVars, runVars>>

Next ==
  \/ \E type \in LedgerTypes, refId \in VmRefIds : ReserveVmId(type, refId)
  \/ \E refId \in VmRefIds : ReleaseVmId(refId)
  \/ \E networkName \in LedgerNetworks, refId \in IpRefIds : ReserveIpAddress(networkName, refId)
  \/ \E refId \in IpRefIds : ReleaseIpAddress(refId)

Spec == Init /\ [][Next]_vars

(***************************************************************************)
(* Terraform allocation passes (src/lib/terraform.js)                      *)
(***************************************************************************)

\* the characters \s matches, as far as the documents contain them
WhiteSpace == {" ", "\n"}

\* [^":\s]+ from position i: the position after the longest run, i when the run is empty
RECURSIVE labelEnd(_, _)
labelEnd(s, i) ==
  IF i > Len(s) \/ s[i] = "\"" \/ s[i] = ":" \/ s[i] \in WhiteSpace THEN i
  ELSE labelEnd(s, i + 1)

\* s continues with lit at position i
startsWithAt(s, i, literal) ==
  i + Len(literal) - 1 <= Len(s) /\ SubSeq(s, i, i + Len(literal) - 1) = literal

\* a run [^":\s]+ from i followed by the character closing: the position of
\* that character, 0 when there is no such match (the run cannot give back
\* characters: none of them is the closing one)
runThen(s, i, closing) ==
  LET e == labelEnd(s, i)
  IN IF e > i /\ e <= Len(s) /\ s[e] = closing THEN e ELSE 0

\* /"(vm|lxc):id:[^":\s]+"/ anchored at position i: the position of the closing quote, or 0
vmIdRegexAt(s, i) ==
  IF startsWithAt(s, i, <<"\"">> \o vm \o <<":", "i", "d", ":">>) THEN runThen(s, i + 7, "\"")
  ELSE IF startsWithAt(s, i, <<"\"">> \o lxc \o <<":", "i", "d", ":">>) THEN runThen(s, i + 8, "\"")
  ELSE 0

\* /"ip:[^":\s]+:[^":\s]+"/ anchored at position i: the position of the closing quote, or 0
ipRegexAt(s, i) ==
  IF startsWithAt(s, i, <<"\"", "i", "p", ":">>)
  THEN LET colon == runThen(s, i + 4, ":")
       IN IF colon = 0 THEN 0 ELSE runThen(s, colon + 1, "\"")
  ELSE 0

\* Array.from(s.matchAll(regex), m => m[0]): the matches from left to right,
\* each search resuming after the previous match
RECURSIVE matchAll(_, _, _)
matchAll(s, regex, i) ==
  IF i > Len(s) THEN <<>>
  ELSE LET e == IF regex = "vmIdRegex" THEN vmIdRegexAt(s, i) ELSE ipRegexAt(s, i)
       IN IF e = 0 THEN matchAll(s, regex, i + 1)
          ELSE <<SubSeq(s, i, e)>> \o matchAll(s, regex, e + 1)

\* Array.from(new Set(matches)): first occurrences, in insertion order
RECURSIVE uniq(_)
uniq(seq) ==
  IF Len(seq) = 0 THEN <<>>
  ELSE LET init == uniq(SubSeq(seq, 1, Len(seq) - 1))
           x == seq[Len(seq)]
       IN IF \E i \in 1..Len(init) : init[i] = x THEN init ELSE Append(init, x)

\* Array.prototype.find(v => v.refId == refId)
findByRefId(list, refId) ==
  LET index == findIndex(list, refId)
  IN IF index = -1 THEN Undefined ELSE Some(list[index + 1])

\* the loop of populateVmIds over matchesArray; acc carries strConfig,
\* this.newInventory, this.deletedInventory and the error thrown so far
\* the body of the loop for one element: existing is the reserved entry found
\* for it (or Undefined), next the outcome of getNextVmId for its type
vmIdStep(element, existing, next, isDestroy, acc) ==
  IF existing # Undefined
  THEN [acc EXCEPT
          !.strConfig = replaceFirst(@, element, numToString(existing[1].vmid, 10)),
          !.deleted.vmids = IF isDestroy THEN Append(@, existing[1]) ELSE @]
  ELSE IF next.thrown # "" THEN [acc EXCEPT !.thrown = next.thrown]
  ELSE [acc EXCEPT
          !.strConfig = replaceFirst(@, element, numToString(next.ret[1], 10)),
          !.new.vmids = Append(@, [refId |-> element, vmid |-> next.ret[1]])]

RECURSIVE vmIdLoop(_, _, _, _)
vmIdLoop(matchesArray, tf, isDestroy, acc) ==
  IF Len(matchesArray) = 0 \/ acc.thrown # "" THEN acc
  ELSE
    LET element == removeAll(matchesArray[1], "\"")
    IN vmIdLoop(Tail(matchesArray), tf, isDestroy,
                vmIdStep(element, findByRefId(tf.reserved.vmids, element),
                         getNextVmId(split(element, <<":">>)[1], tf), isDestroy, acc))

populateVmIds(str, tf, isDestroy, newInv, deletedInv) ==
  vmIdLoop(uniq(matchAll(str, "vmIdRegex", 1)), tf, isDestroy,
           [strConfig |-> str, new |-> newInv, deleted |-> deletedInv, thrown |-> ""])

\* the body of the loop for one element: existing is the reserved entry found
\* for it (or Undefined), next the outcome of getNextIpAddress for parts[1]
ipStep(element, existing, next, isDestroy, acc) ==
  IF existing # Undefined
  THEN [acc EXCEPT
          !.strConfig = replaceFirst(@, element, existing[1].ip),
          !.deleted.ips = IF isDestroy THEN Append(@, existing[1]) ELSE @]
  ELSE IF next.thrown # "" THEN [acc EXCEPT !.thrown = next.thrown]
  ELSE [acc EXCEPT
          !.strConfig = replaceFirst(@, element, next.ret[1]),
          !.new.ips = Append(@, [refId |-> element, ip |-> next.ret[1]])]

RECURSIVE ipLoop(_, _, _, _)
ipLoop(matchesArray, tf, isDestroy, acc) ==
  IF Len(matchesArray) = 0 \/ acc.thrown # "" THEN acc
  ELSE
    LET element == removeAll(matchesArray[1], "\"")
    IN ipLoop(Tail(matchesArray), tf, isDestroy,
              ipStep(element, findByRefId(tf.reserved.ips, element),
                     getNextIpAddress(split(element, <<":">>)[2], tf), isDestroy, acc))

populateIpAddresses(str, tf, isDestroy, newInv, deletedInv) ==
  ipLoop(uniq(matchAll(str, "ipRegex", 1)), tf, isDestroy,
         [strConfig |-> str, new |-> newInv, deleted |-> deletedInv, thrown |-> ""])

\* the most string values a generated document holds
MaxDocValues == 3

plain == <<"x">>

\* the string values of the generated documents: allocation tokens and a plain value
DocValues ==
  {vmRef(vm, i) : i \in 1..NumLabels} \cup {ipRef(lan, i) : i \in 1..NumLabels}
    \cup {vmRef(lxc, 1), ipRef(dmz, 1), plain}

\* the sequences over S of length 1..n
RECURSIVE seqsUpTo(_, _)
seqsUpTo(S, n) ==
  IF n = 0 THEN {}
  ELSE {<<x>> : x \in S} \cup {Append(t, x) : t \in seqsUpTo(S, n - 1), x \in S}

\* JSON.stringify(config, null, 2) of an object whose members p, q, ... hold the values
RECURSIVE members(_, _)
members(values, k) ==
  IF Len(values) = 0 THEN <<>>
  ELSE <<"\n", " ", " ", "\"", Letters[k], "\"", ":", " ", "\"">> \o values[1] \o <<"\"">>
         \o (IF Len(values) > 1 THEN <<",">> ELSE <<>>) \o members(Tail(values), k + 1)

stringify(values) == <<"{">> \o members(values, 1) \o <<"\n", "}">>

Documents == {stringify(values) : values \in seqsUpTo(DocValues, MaxDocValues)}

\* inventories as loadInventory returns them (its schema has no hosts key)
TfInventories ==
  {[hosts |-> <<>>, templates |-> <<templateEntry(300)>>, networks |-> LedgerNetworkList,
    reserved |-> emptyReserved],
   [hosts |-> <<>>, templates |-> <<templateEntry(300)>>, networks |-> LedgerNetworkList,
    reserved |-> [vmids |-> <<[vmid |-> 100, refId |-> vmRef(vm, 1)]>>,
                  ips |-> <<[ip |-> <<"1", "0", ".", "0", ".", "0", ".", "2">>, refId |-> ipRef(lan, 1)]>>]],
   [hosts |-> <<>>, templates |-> templatesOf(100, 199), networks |-> LedgerNetworkList,
    reserved |-> emptyReserved]}

InitTf ==
  /\ tfInventory \in TfInventories
  /\ strConfig \in Documents
  /\ destroy \in BOOLEAN
  /\ newInventory = emptyReserved
  /\ deletedInventory = emptyReserved
  /\ tfPc = "populateVmIds"
  /\ inventory = tfInventory
  /\ last = NoCall(inventory)
  /\ NoRun

\* the VM-ID pass going on to the clone, without the IP pass
PopulateVmIds_ThenClone ==
  /\ tfPc = "populateVmIds"
  /\ \E r \in {populateVmIds(strConfig, tfInventory, destroy, newInventory, deletedInventory)} :
     /\ newInventory' = r.new
     /\ deletedInventory' = r.deleted
     /\ strConfig' = IF r.thrown = "" THEN r.strConfig ELSE strConfig
     /\ tfPc' = IF r.thrown = "" THEN "allocated" ELSE "failed"
  /\ UNCHANGED <<partVars, tfInventory, destroy, ledgerVars, runVars>>

\* const vmResult = this.populateVmIds(strConfig, destroy); strConfig = vmResult.strConfig;
PopulateVmIds ==
  /\ tfPc = "populateVmIds"
  /\ \E r \in {populateVmIds(strConfig, tfInventory, destroy, newInventory, deletedInventory)} :
     /\ newInventory' = r.new
     /\ deletedInventory' = r.deleted
     /\ strConfig' = IF r.thrown = "" THEN r.strConfig ELSE strConfig
     /\ tfPc' = IF r.thrown = "" THEN "populateIpAddresses" ELSE "failed"
  /\ UNCHANGED <<partVars, tfInventory, destroy, ledgerVars, runVars>>

\* const ipResult = this.populateIpAddresses(strConfig, destroy); strConfig = ipResult.strConfig;
PopulateIpAddresses ==
  /\ tfPc = "populateIpAddresses"
  /\ \E r \in {populateIpAddresses(strConfig, tfInventory, destroy, newInventory, deletedInventory)} :
     /\ newInventory' = r.new
     /\ deletedInventory' = r.deleted
     /\ strConfig' = IF r.thrown = "" THEN r.strConfig ELSE strConfig
     /\ tfPc' = IF r.thrown = "" THEN "allocated" ELSE "failed"
  /\ UNCHANGED <<partVars, tfInventory, destroy, ledgerVars, runVars>>

NextTf ==
  \/ PopulateVmIds
  \/ PopulateIpAddresses

SpecTf == InitTf /\ [][NextTf]_vars

(***************************************************************************)
(* Reference passes and the inventory file (src/lib/function.js)           *)
(***************************************************************************)

\* JSON values: t is the type, s the characters of a string, n a number, k the
\* keys of an object and v its values (or the items of an array)
JsString(s) == [t |-> "string", s |-> s, n |-> 0, k |-> <<>>, v |-> <<>>]

JsNumber(n) == [t |-> "number", s |-> <<>>, n |-> n, k |-> <<>>, v |-> <<>>]

JsObject(k, v) == [t |-> "object", s |-> <<>>, n |-> 0, k |-> k, v |-> v]

JsArray(v) == [t |-> "array", s |-> <<>>, n |-> 0, k |-> <<>>, v |-> v]

JsNull == [t |-> "null", s |-> <<>>, n |-> 0, k |-> <<>>, v |-> <<>>]

JsUndefined == [t |-> "undefined", s |-> <<>>, n |-> 0, k |-> <<>>, v |-> <<>>]

\* the value in a boolean context
truthy(x) ==
  CASE x.t \in {"null", "undefined"} -> FALSE
    [] x.t = "string" -> Len(x.s) > 0
    [] x.t = "number" -> x.n # 0
    [] OTHER -> TRUE

\* obj[key] of an object that has the key
member(obj, key) == obj.v[CHOOSE i \in 1..Len(obj.k) : obj.k[i] = key]

hasKey(obj, key) == \E i \in 1..Len(obj.k) : obj.k[i] = key

\* Array.prototype.find(item => item.name === p)
findByName(items, p) ==
  LET named(i) == /\ items[i].t = "object"
                  /\ hasKey(items[i], <<"n", "a", "m", "e">>)
                  /\ member(items[i], <<"n", "a", "m", "e">>) = JsString(p)
  IN IF \E i \in 1..Len(items) : named(i)
     THEN items[CHOOSE i \in 1..Len(items) : named(i) /\ \A j \in 1..(i - 1) : ~named(j)]
     ELSE JsUndefined

\* String(value), as String.prototype.replace applies it to its replacement
RECURSIVE toString(_)
toString(x) ==
  CASE x.t = "string" -> x.s
    [] x.t = "number" -> numToString(x.n, 10)
    [] x.t = "null" -> <<"n", "u", "l", "l">>
    [] x.t = "undefined" -> <<"u", "n", "d", "e", "f", "i", "n", "e", "d">>
    [] x.t = "object" -> <<"[", "o", "b", "j", "e", "c", "t", " ", "O", "b", "j", "e", "c", "t", "]">>
    [] x.t = "array" ->
         join([i \in 1..Len(x.v) |->
                 IF x.v[i].t \in {"null", "undefined"} THEN <<>> ELSE toString(x.v[i])], <<",">>)

\* the loop of getRefValue over the path; `p in refValue` throws a TypeError
\* when refValue is a (truthy) primitive
RECURSIVE walkPath(_, _)
walkPath(path, refValue) ==
  IF Len(path) = 0 THEN [thrown |-> "", val |-> refValue]
  ELSE IF refValue.t = "array" THEN walkPath(Tail(path), findByName(refValue.v, path[1]))
  ELSE IF ~truthy(refValue) THEN [thrown |-> "", val |-> JsNull]
  ELSE IF refValue.t # "object" THEN [thrown |-> "TypeError", val |-> JsNull]
  ELSE IF hasKey(refValue, path[1]) THEN walkPath(Tail(path), member(refValue, path[1]))
  ELSE [thrown |-> "", val |-> JsNull]

getRefValue(refString, obj) == walkPath(split(refString, <<".">>), obj)

\* [^"}]+ from position i: the position after the longest run
RECURSIVE refEnd(_, _)
refEnd(s, i) ==
  IF i > Len(s) \/ s[i] = "\"" \/ s[i] = "}" THEN i ELSE refEnd(s, i + 1)

\* /{<prefix>([^"}]+)}/ anchored at position i: the position of the closing brace, or 0
refRegexAt(s, i, prefix) ==
  IF startsWithAt(s, i, <<"{">> \o prefix)
  THEN LET from == i + 1 + Len(prefix)
           e == refEnd(s, from)
       IN IF e > from /\ e <= Len(s) /\ s[e] = "}" THEN e ELSE 0
  ELSE 0

\* Array.from(s.matchAll(/{<prefix>([^"}]+)}/g), m => m[0])
RECURSIVE matchAllRefs(_, _, _)
matchAllRefs(s, prefix, i) ==
  IF i > Len(s) THEN <<>>
  ELSE LET e == refRegexAt(s, i, prefix)
       IN IF e = 0 THEN matchAllRefs(s, prefix, i + 1)
          ELSE <<SubSeq(s, i, e)>> \o matchAllRefs(s, prefix, e + 1)

\* a configuration is an object whose members a, b, ... hold strings; it is
\* kept as the sequence of these strings
configObject(cfg) ==
  JsObject([i \in 1..Len(cfg) |-> <<Letters[i]>>], [i \in 1..Len(cfg) |-> JsString(cfg[i])])

\* JSON.stringify(config)
RECURSIVE compactMembers(_, _)
compactMembers(values, k) ==
  IF Len(values) = 0 THEN <<>>
  ELSE <<"\"", Letters[k], "\"", ":", "\"">> \o values[1] \o <<"\"">>
         \o (IF Len(values) > 1 THEN <<",">> ELSE <<>>) \o compactMembers(Tail(values), k + 1)

compact(values) == <<"{">> \o compactMembers(values, 1) \o <<"}">>

\* JSON.parse of the text of such an object: the member strings, or a
\* SyntaxError when the text is not an object of "key": "string" members
parse(text) ==
  LET parts == split(text, <<"\"">>)
      n == (Len(parts) - 1) \div 4
      bare(x) == SelectSeq(x, LAMBDA c : c \notin WhiteSpace)
      wellFormed ==
        /\ Len(parts) = 4 * n + 1
        /\ n >= 1
        /\ bare(parts[1]) = <<"{">>
        /\ bare(parts[4 * n + 1]) = <<"}">>
        /\ \A j \in 1..n : bare(parts[4 * j - 1]) = <<":">>
        /\ \A j \in 1..(n - 1) : bare(parts[4 * j + 1]) = <<",">>
        /\ \A j \in 1..n : "\n" \notin {parts[4 * j][c] : c \in 1..Len(parts[4 * j])}
  IN IF wellFormed THEN [thrown |-> "", config |-> [j \in 1..n |-> parts[4 * j]]]
     ELSE [thrown |-> "SyntaxError", config |-> <<>>]

\* the loop of populateInventoryRefs / populateUpperLevelRefs over the matches:
\* the first occurrence of the match is replaced by String(result)
RECURSIVE refLoop(_, _, _, _)
refLoop(matches, prefix, obj, acc) ==
  IF Len(matches) = 0 \/ acc.thrown # "" THEN acc
  ELSE
    LET element == removeAll(removeAll(matches[1], "{"), "}")
        result == getRefValue(drop(element, Len(prefix)), obj)
    IN refLoop(Tail(matches), prefix, obj,
               IF result.thrown # "" THEN [acc EXCEPT !.thrown = result.thrown]
               ELSE [acc EXCEPT !.strConfig = replaceFirst(@, matches[1], toString(result.val))])

resolveRefs(cfg, prefix, obj) ==
  LET text == compact(cfg)
      done == refLoop(matchAllRefs(text, prefix, 1), prefix, obj,
                      [strConfig |-> text, thrown |-> ""])
  IN IF done.thrown # "" THEN [thrown |-> done.thrown, config |-> cfg]
     ELSE parse(done.strConfig)

\* the inventory object as reference paths see it
networkObject(net) ==
  JsObject(<<<<"n", "a", "m", "e">>, <<"s", "u", "b", "n", "e", "t">>, <<"g", "a", "t", "e", "w", "a", "y">>, <<"d", "n", "s">>, <<"s", "t", "a", "t", "i", "c", "_", "r", "a", "n", "g", "e">>>>,
           <<JsString(net.name), JsString(net.subnet), JsString(net.gateway), JsString(net.dns),
             JsObject(<<<<"s", "t", "a", "r", "t">>, <<"e", "n", "d">>>>,
                      <<JsString(net.static_range.start), JsString(net.static_range.end)>>)>>)

templateObject(tpl) ==
  JsObject(<<<<"n", "a", "m", "e">>, <<"v", "e", "r", "s", "i", "o", "n">>, <<"v", "m", "i", "d">>>>,
           <<JsString(tpl.name), JsString(tpl.version), JsNumber(tpl.vmid)>>)

reservedObject(reserved) ==
  JsObject(<<<<"v", "m", "i", "d", "s">>, <<"i", "p", "s">>>>,
           <<JsArray([i \in 1..Len(reserved.vmids) |->
                        JsObject(<<<<"v", "m", "i", "d">>, <<"r", "e", "f", "I", "d">>>>,
                                 <<JsNumber(reserved.vmids[i].vmid), JsString(reserved.vmids[i].refId)>>)]),
             JsArray([i \in 1..Len(reserved.ips) |->
                        JsObject(<<<<"i", "p">>, <<"r", "e", "f", "I", "d">>>>,
                                 <<JsString(reserved.ips[i].ip), JsString(reserved.ips[i].refId)>>)])>>)

inventoryObject(inv) ==
  JsObject(<<<<"p", "r", "o", "x", "m", "o", "x">>, <<"t", "e", "r", "r", "a", "f", "o", "r", "m">>, <<"r", "e", "s", "e", "r", "v", "e", "d">>, <<"t", "e", "m", "p", "l", "a", "t", "e", "s">>, <<"n", "e", "t", "w", "o", "r", "k", "s">>>>,
           <<JsObject(<<<<"n", "o", "d", "e">>>>, <<JsString(inv.proxmox[1].node)>>),
             JsObject(<<<<"b", "a", "c", "k", "e", "n", "d">>>>,
                      <<JsObject(<<<<"t", "y", "p", "e">>>>, <<JsString(inv.terraform[1].backend.type)>>)>>),
             reservedObject(inv.reserved),
             JsArray([i \in 1..Len(inv.templates) |-> templateObject(inv.templates[i])]),
             JsArray([i \in 1..Len(inv.networks) |-> networkObject(inv.networks[i])])>>)

populateInventoryRefs(cfg, inv) ==
  resolveRefs(cfg, <<"i", "n", "v", "e", "n", "t", "o", "r", "y", ":">>, inventoryObject(inv))

populateUpperLevelRefs(cfg) ==
  resolveRefs(cfg, <<"c", "o", "n", "f", "i", "g", ":">>, configObject(cfg))

\* the inventory file: kind tells whether it can be read ("missing" when
\* not) and whether its text is JSON ("text" when not); data is the document
loadConfig(configFile) == IF configFile.kind = "json" THEN Some(configFile.data) ELSE Undefined

\* the schema of loadInventory, as far as the documents can violate it: the
\* required blocks, no key the schema does not name (hosts), IP addresses
validInventory(data) ==
  /\ data.proxmox # Undefined
  /\ data.terraform # Undefined
  /\ Len(data.hosts) = 0
  /\ \A i \in 1..Len(data.reserved.ips) : isIP(data.reserved.ips[i].ip) # 0
  /\ \A i \in 1..Len(data.networks) :
       /\ isIP(data.networks[i].gateway) # 0
       /\ isIP(data.networks[i].dns) # 0
       /\ isIP(data.networks[i].static_range.start) # 0
       /\ isIP(data.networks[i].static_range.end) # 0

\* the inventory, or Undefined for the null it returns on an error
loadInventory(configFile) ==
  LET data == loadConfig(configFile)
  IN IF data = Undefined THEN Undefined
     ELSE IF ~validInventory(data[1]) THEN Undefined
     ELSE data

\* updateInventory writing the object it was handed, which has a reserved block only
updateInventory_Handed(inventoryFile, updatedInventory) ==
  LET loaded == loadInventory(inventoryFile)
  IN IF loaded = Undefined
     THEN [thrown |-> "Failed to load inventory for update", file |-> inventoryFile]
     ELSE [thrown |-> "",
           file |-> [kind |-> "json",
                     data |-> [blankInventory EXCEPT !.reserved = updatedInventory.reserved]]]

\* the file after updateInventory(inventoryFile, updatedInventory)
updateInventory(inventoryFile, updatedInventory) ==
  LET loaded == loadInventory(inventoryFile)
  IN IF loaded = Undefined
     THEN [thrown |-> "Failed to load inventory for update", file |-> inventoryFile]
     ELSE [thrown |-> "",
           file |-> [kind |-> "json",
                     data |-> [loaded[1] EXCEPT !.reserved = updatedInventory.reserved]]]

(***************************************************************************)
(* The vault pass (src/lib/bw.js)                                          *)
(***************************************************************************)

\* /"bw:([^"]+)"/ anchored at position i: the position of the closing quote, or 0
bwRegexAt(s, i) ==
  IF startsWithAt(s, i, <<"\"", "b", "w", ":">>)
  THEN LET e == indexFrom(s, <<"\"">>, i + 4)
       IN IF e + 1 > i + 4 THEN e + 1 ELSE 0
  ELSE 0

RECURSIVE matchAllBw(_, _)
matchAllBw(s, i) ==
  IF i > Len(s) THEN <<>>
  ELSE LET e == bwRegexAt(s, i)
       IN IF e = 0 THEN matchAllBw(s, i + 1)
          ELSE <<SubSeq(s, i, e)>> \o matchAllBw(s, e + 1)

\* path.forEach(part => ...) of Bw.fill: current[part] throws a TypeError when
\* current is undefined or null
RECURSIVE walkSecret(_, _)
walkSecret(path, current) ==
  IF Len(path) = 0 THEN [thrown |-> "", val |-> current]
  ELSE IF current.t = "array" THEN walkSecret(Tail(path), findByName(current.v, path[1]))
  ELSE IF current.t \in {"null", "undefined"} THEN [thrown |-> "TypeError", val |-> JsNull]
  ELSE IF current.t = "object" /\ hasKey(current, path[1])
       THEN walkSecret(Tail(path), member(current, path[1]))
  ELSE walkSecret(Tail(path), JsUndefined)

RECURSIVE fillLoop(_, _, _)
fillLoop(bwMatches, secrets, acc) ==
  IF Len(bwMatches) = 0 \/ acc.thrown # "" THEN acc
  ELSE
    LET element == removeAll(bwMatches[1], "\"")
        reference == replaceFirst(element, <<"b", "w", ":">>, <<>>)
        path == split(reference, <<".">>)
        bwSecret == findByName(secrets, path[1])
        current == walkSecret(Tail(path), bwSecret)
    IN fillLoop(Tail(bwMatches), secrets,
                IF bwSecret = JsUndefined THEN acc
                ELSE IF current.thrown # "" THEN [acc EXCEPT !.thrown = current.thrown]
                ELSE IF current.val.t = "string"
                     THEN [acc EXCEPT !.strConfig =
                             replaceFirst(@, <<"\"", "b", "w", ":">> \o reference \o <<"\"">>,
                                          <<"\"">> \o current.val.s \o <<"\"">>)]
                ELSE acc)

\* Bw.prototype.fill on a configuration, this.secrets being the fetched list
fill(cfg, secrets) ==
  LET text == compact(cfg)
      done == fillLoop(matchAllBw(text, 1), secrets, [strConfig |-> text, thrown |-> ""])
  IN IF done.thrown # "" THEN [thrown |-> done.thrown, config |-> cfg]
     ELSE parse(done.strConfig)

\* Bw.prototype.fill on the inventory: the string the vault can fill is proxmox.node
fillInventory(inv, secrets) ==
  LET filled == fill(<<inv.proxmox[1].node>>, secrets)
  IN IF filled.thrown # "" THEN [thrown |-> filled.thrown, inventory |-> inv]
     ELSE [thrown |-> "", inventory |-> [inv EXCEPT !.proxmox[1].node = filled.config[1]]]

(***************************************************************************)
(* The Terraform run (src/bin/tf-operations.js, src/lib/terraform.js)      *)
(***************************************************************************)

\* the most runs started against one inventory file
MaxRuns == 2

\* the most members a configuration of a run holds
MaxRunValues == 1

pve == <<"p", "v", "e">>

\* the secret named s, with one string field p
secretS == JsObject(<<<<"n", "a", "m", "e">>, <<"p">>>>, <<JsString(<<"s">>), JsString(<<"w">>)>>)

\* the lists `bw list` can return
SecretLists == {<<>>, <<secretS>>}

bwRef == <<"b", "w", ":", "s", ".", "p">>

inventoryRef == <<"{", "i", "n", "v", "e", "n", "t", "o", "r", "y", ":", "n", "e", "t", "w", "o", "r", "k", "s", ".", "l", "a", "n", ".", "g", "a", "t", "e", "w", "a", "y", "}">>

configRef == <<"{", "c", "o", "n", "f", "i", "g", ":", "a", "}">>

\* the member strings of the configurations: allocation tokens and a
\* reference of each kind
RunValues == {vmRef(vm, 1), vmRef(vm, 2), ipRef(lan, 1), bwRef, inventoryRef, configRef}

RunConfigs == seqsUpTo(RunValues, MaxRunValues)

runInventory(hosts, reserved) ==
  [proxmox |-> Some([node |-> pve]), terraform |-> Some([backend |-> [type |-> <<"s", "3">>]]),
   hosts |-> hosts, templates |-> <<templateEntry(300)>>, networks |-> LedgerNetworkList,
   reserved |-> reserved]

reservedA ==
  [vmids |-> <<[vmid |-> 100, refId |-> vmRef(vm, 1)]>>,
   ips |-> <<[ip |-> <<"1", "0", ".", "0", ".", "0", ".", "2">>, refId |-> ipRef(lan, 1)]>>]

reservedB == [vmids |-> <<[vmid |-> 100, refId |-> vmRef(vm, 2)]>>, ips |-> <<>>]

\* the inventory files: valid ones, one with a key the schema rejects, one
\* without a required block, one that is not JSON and one that cannot be read
RunFiles ==
  {[kind |-> "json", data |-> runInventory(<<>>, emptyReserved)],
   [kind |-> "json", data |-> runInventory(<<>>, reservedA)],
   [kind |-> "json", data |-> runInventory(busyHosts, emptyReserved)],
   [kind |-> "json", data |-> [runInventory(<<>>, emptyReserved) EXCEPT !.proxmox = Undefined]],
   [kind |-> "text", data |-> blankInventory],
   [kind |-> "missing", data |-> blankInventory]}

\* the value the import of terraform.js binds to updateInventoryWithNewEntries:
\* module.exports of function.js has no member of that name
updateInventoryWithNewEntries == Undefined

Effect(cmd, ok) == [cmd |-> cmd, ok |-> ok]

\* the bindings of the current run: the entries it created and the reserved
\* entries its tokens were resolved from
runBindings ==
  {[refId |-> newInventory.vmids[i].refId, value |-> numToString(newInventory.vmids[i].vmid, 10)] :
     i \in 1..Len(newInventory.vmids)}
  \cup {[refId |-> newInventory.ips[i].refId, value |-> newInventory.ips[i].ip] :
          i \in 1..Len(newInventory.ips)}
  \cup {[refId |-> tfInventory.reserved.vmids[i].refId,
         value |-> numToString(tfInventory.reserved.vmids[i].vmid, 10)] :
          i \in {j \in 1..Len(tfInventory.reserved.vmids) :
                   \E m \in 1..Len(manifest) : manifest[m] = tfInventory.reserved.vmids[j].refId}}
  \cup {[refId |-> tfInventory.reserved.ips[i].refId, value |-> tfInventory.reserved.ips[i].ip] :
          i \in {j \in 1..Len(tfInventory.reserved.ips) :
                   \E m \in 1..Len(manifest) : manifest[m] = tfInventory.reserved.ips[j].refId}}

\* no run has been started on the inventory file yet
NotStarted ==
  /\ file \in RunFiles
  /\ fileAtStart = file
  /\ config = <<>>
  /\ manifest = <<>>
  /\ destroy = FALSE
  /\ effects = <<>>
  /\ runs = 0
  /\ bindings = {}
  /\ tfInventory = blankInventory
  /\ strConfig = <<>>
  /\ newInventory = emptyReserved
  /\ deletedInventory = emptyReserved
  /\ tfPc = "idle"
  /\ pkPc = "idle"
  /\ pkInventory = blankInventory
  /\ pkConfig = <<>>
  /\ inventory = blankInventory
  /\ last = NoCall(inventory)

InitRun == NotStarted /\ NoPart

\* no process is working on the inventory file
Idle == tfPc \in {"idle", "exit0", "exit1"} /\ pkPc \in {"idle", "exit0", "exit1"}

\* no Terraform object exists (any more)
NoTerraform ==
  /\ tfInventory' = blankInventory
  /\ strConfig' = <<>>
  /\ newInventory' = emptyReserved
  /\ deletedInventory' = emptyReserved
  /\ destroy' = FALSE
  /\ tfPc' = "idle"
  /\ config' = <<>>
  /\ manifest' = <<>>

\* no Packer object exists (any more)
NoPacker ==
  /\ pkPc' = "idle"
  /\ pkInventory' = blankInventory
  /\ pkConfig' = <<>>

\* an invocation of tf-operations.js: new Terraform(manifest)
StartRun(cfg, isDestroy) ==
  /\ Idle
  /\ runs < MaxRuns
  /\ runs' = runs + 1
  /\ config' = cfg
  /\ manifest' = cfg
  /\ destroy' = isDestroy
  /\ fileAtStart' = file
  /\ effects' = <<>>
  /\ tfInventory' = blankInventory
  /\ strConfig' = <<>>
  /\ newInventory' = emptyReserved
  /\ deletedInventory' = emptyReserved
  /\ tfPc' = "loadInventory"
  /\ NoPacker
  /\ UNCHANGED <<partVars, ledgerVars, file, bindings>>

\* the vault session opened before the inventory is looked at
LoadInventory_VaultFirst ==
  /\ tfPc = "loadInventory"
  /\ effects' = Append(effects, Effect("bw", TRUE))
  /\ \E loaded \in {loadInventory(file)} :
     /\ tfInventory' = IF loaded = Undefined THEN tfInventory ELSE loaded[1]
     /\ tfPc' = IF loaded = Undefined THEN "failed" ELSE "populateInventoryRefs"
  /\ UNCHANGED <<partVars, strConfig, newInventory, deletedInventory, destroy, ledgerVars,
                 file, fileAtStart, config, manifest, runs, bindings, pkVars>>

\* this.inventory = loadInventory(this.config.inventoryFile); if (!this.inventory) throw
LoadInventory ==
  /\ tfPc = "loadInventory"
  /\ \E loaded \in {loadInventory(file)} :
     /\ tfInventory' = IF loaded = Undefined THEN tfInventory ELSE loaded[1]
     /\ tfPc' = IF loaded = Undefined THEN "failed" ELSE "populateBitwardenRefs"
  /\ UNCHANGED <<partVars, strConfig, newInventory, deletedInventory, destroy, ledgerVars, runVars>>

\* await populateBitwardenRefs(this.config, this.inventory, ...): the vault
\* session either fails (a bw command exits with an error) or fills both documents
PopulateBitwardenRefs(ok, secrets) ==
  /\ tfPc = "populateBitwardenRefs"
  /\ effects' = Append(effects, Effect("bw", ok))
  /\ \E inv \in {fillInventory(tfInventory, secrets)}, cfg \in {fill(config, secrets)} :
     LET failed == ~ok \/ inv.thrown # "" \/ cfg.thrown # ""
     IN /\ tfInventory' = IF failed THEN tfInventory ELSE inv.inventory
        /\ config' = IF failed THEN config ELSE cfg.config
        /\ tfPc' = IF failed THEN "failed" ELSE "populateInventoryRefs"
  /\ UNCHANGED <<partVars, strConfig, newInventory, deletedInventory, destroy, ledgerVars,
                 file, fileAtStart, manifest, runs, bindings, pkVars>>

\* this.config = populateInventoryRefs(this.config, this.inventory)
PopulateInventoryRefs ==
  /\ tfPc = "populateInventoryRefs"
  /\ \E r \in {populateInventoryRefs(config, tfInventory)} :
     /\ config' = IF r.thrown = "" THEN r.config ELSE config
     /\ tfPc' = IF r.thrown = "" THEN "populateUpperLevelRefs" ELSE "failed"
  /\ UNCHANGED <<partVars, tfInventory, strConfig, newInventory, deletedInventory, destroy, ledgerVars,
                 file, fileAtStart, manifest, effects, runs, bindings, pkVars>>

\* this.config = populateUpperLevelRefs(this.config);
\* let strConfig = JSON.stringify(this.config, null, 2)
PopulateUpperLevelRefs ==
  /\ tfPc = "populateUpperLevelRefs"
  /\ \E r \in {populateUpperLevelRefs(config)} :
     /\ config' = IF r.thrown = "" THEN r.config ELSE config
     /\ strConfig' = IF r.thrown = "" THEN stringify(r.config) ELSE strConfig
     /\ tfPc' = IF r.thrown = "" THEN "populateVmIds" ELSE "failed"
  /\ UNCHANGED <<partVars, tfInventory, newInventory, deletedInventory, destroy, ledgerVars,
                 file, fileAtStart, manifest, effects, runs, bindings, pkVars>>

\* this.config = JSON.parse(strConfig); ...; await this.command.run('git', cloneArgs, ...)
Clone(ok) ==
  /\ tfPc = "allocated"
  /\ \E r \in {parse(strConfig)} :
     /\ config' = IF r.thrown = "" THEN r.config ELSE config
     /\ effects' = IF r.thrown = "" THEN Append(effects, Effect("git clone", ok)) ELSE effects
     /\ tfPc' = IF r.thrown = "" /\ ok THEN "plan" ELSE "failed"
  /\ UNCHANGED <<partVars, tfInventory, strConfig, newInventory, deletedInventory, destroy, ledgerVars,
                 file, fileAtStart, manifest, runs, bindings, pkVars>>

\* Terraform.prototype.plan: terraform init, then terraform plan
Plan(initOk, planOk) ==
  /\ tfPc = "plan"
  /\ effects' = IF initOk
                THEN effects \o <<Effect("terraform init", TRUE), Effect("terraform plan", planOk)>>
                ELSE Append(effects, Effect("terraform init", FALSE))
  /\ tfPc' = IF initOk /\ planOk THEN "apply" ELSE "failed"
  /\ UNCHANGED <<partVars, tfInventory, strConfig, newInventory, deletedInventory, destroy, ledgerVars,
                 file, fileAtStart, config, manifest, runs, bindings, pkVars>>

\* terraform apply preceded by a write of the run's new entries
Apply_WritesFirst(ok) ==
  /\ tfPc = "apply"
  /\ effects' = Append(effects, Effect("terraform apply", ok))
  /\ file' = [file EXCEPT !.data.reserved.vmids = @ \o newInventory.vmids,
                          !.data.reserved.ips = @ \o newInventory.ips]
  /\ tfPc' = "failed"
  /\ bindings' = IF ok /\ ~destroy THEN bindings \cup runBindings ELSE bindings
  /\ UNCHANGED <<partVars, tfInventory, strConfig, newInventory, deletedInventory, destroy, ledgerVars,
                 fileAtStart, config, manifest, runs, pkVars>>

\* Terraform.prototype.apply: terraform apply, then the call of
\* updateInventoryWithNewEntries, which throws a TypeError when the name is
\* bound to undefined
Apply(ok) ==
  /\ tfPc = "apply"
  /\ effects' = Append(effects, Effect("terraform apply", ok))
  /\ tfPc' = IF ok /\ updateInventoryWithNewEntries # Undefined THEN "applied" ELSE "failed"
  /\ bindings' = IF ok /\ ~destroy THEN bindings \cup runBindings ELSE bindings
  /\ UNCHANGED <<partVars, tfInventory, strConfig, newInventory, deletedInventory, destroy, ledgerVars,
                 file, fileAtStart, config, manifest, runs, pkVars>>

\* main: after apply, or in the catch block, terraform.cleanup() and
\* process.exit, with which the Terraform object is gone
Cleanup ==
  /\ tfPc \in {"applied", "failed"}
  /\ effects' = Append(effects, Effect("rm", TRUE))
  /\ tfPc' = IF tfPc = "applied" THEN "exit0" ELSE "exit1"
  /\ tfInventory' = blankInventory
  /\ strConfig' = <<>>
  /\ newInventory' = emptyReserved
  /\ deletedInventory' = emptyReserved
  /\ destroy' = FALSE
  /\ config' = <<>>
  /\ manifest' = <<>>
  /\ UNCHANGED <<partVars, ledgerVars, file, fileAtStart, runs, bindings, pkVars>>

(***************************************************************************)
(* The Packer run (src/bin/packer-build.js, src/lib/packer.js)             *)
(***************************************************************************)

\* the configurations of the Packer runs: the members name and version
PackerConfigs == {<<<<"t", "3", "0", "0">>, <<"2">>>>, <<<<"u">>, <<"1">>>>}

\* an invocation of packer-build.js: new Packer(manifest)
StartPacker(cfg) ==
  /\ Idle
  /\ runs < MaxRuns
  /\ runs' = runs + 1
  /\ pkConfig' = cfg
  /\ pkInventory' = blankInventory
  /\ pkPc' = "init"
  /\ fileAtStart' = file
  /\ effects' = <<>>
  /\ NoTerraform
  /\ UNCHANGED <<partVars, ledgerVars, file, bindings>>

\* Packer.prototype.init after the reference passes: fromConfig is the
\* outcome of populateUpperLevelRefs, strCfg that of JSON.parse(strConfig)
initParsed(inv, fromConfig, strCfg, done) ==
  [thrown |-> strCfg.thrown, inventory |-> inv,
   config |-> IF strCfg.thrown = "" THEN strCfg.config ELSE fromConfig, effects |-> done]

\* ... after populateInventoryRefs, whose outcome is fromInventory
initResolved(inv, filled, fromInventory, fromConfig, done) ==
  IF fromInventory.thrown # ""
  THEN [thrown |-> fromInventory.thrown, inventory |-> inv, config |-> filled, effects |-> done]
  ELSE IF fromConfig.thrown # ""
  THEN [thrown |-> fromConfig.thrown, inventory |-> inv, config |-> fromInventory.config,
        effects |-> done]
  ELSE initParsed(inv, fromConfig.config, parse(compact(fromConfig.config)), done)

\* ... after the vault session, which fails or has filled both documents
initFilled(loaded, cfg, ok, inv, filled) ==
  IF ~ok \/ inv.thrown # "" \/ filled.thrown # ""
  THEN [thrown |-> "Failed to populate Bitwarden references", inventory |-> loaded,
        config |-> cfg, effects |-> <<Effect("bw", ok)>>]
  ELSE initResolved(inv.inventory, filled.config,
                    populateInventoryRefs(filled.config, inv.inventory),
                    populateUpperLevelRefs(populateInventoryRefs(filled.config, inv.inventory).config),
                    <<Effect("bw", ok)>>)

\* the outcome of Packer.prototype.init
init(loaded, cfg, ok, secrets) ==
  IF loaded = Undefined
  THEN [thrown |-> "Failed to load inventory", inventory |-> blankInventory, config |-> cfg,
        effects |-> <<>>]
  ELSE initFilled(loaded[1], cfg, ok, fillInventory(loaded[1], secrets), fill(cfg, secrets))

\* await packer.init()
PackerInit(ok, secrets) ==
  /\ pkPc = "init"
  /\ \E r \in {init(loadInventory(file), pkConfig, ok, secrets)} :
     /\ pkInventory' = r.inventory
     /\ pkConfig' = r.config
     /\ effects' = effects \o r.effects
     /\ pkPc' = IF r.thrown = "" THEN "build" ELSE "exit1"
  /\ UNCHANGED <<partVars, tfVars, ledgerVars, file, fileAtStart, config, manifest, runs, bindings>>

\* the new entry pushed whether or not the list holds an entry of that name
withTemplate_Pushes(templates, newTemplate) == Append(templates, newTemplate)

\* this.inventory.templates after the build: the entry of that name is
\* overwritten, or the new entry is pushed
withTemplate(templates, newTemplate) ==
  IF \E i \in 1..Len(templates) : templates[i].name = newTemplate.name
  THEN LET existing == CHOOSE i \in 1..Len(templates) :
                         /\ templates[i].name = newTemplate.name
                         /\ \A j \in 1..(i - 1) : templates[j].name # newTemplate.name
       IN [templates EXCEPT ![existing] = newTemplate]
  ELSE Append(templates, newTemplate)

\* the outcome of Packer.prototype.build(override): present tells whether
\* Proxmox has a template of that name, failing names the external step that
\* fails ("none" when all succeed), next is the outcome of getNextVmId
build(inv, cfg, configFile, override, present, failing, next) ==
  LET iso == <<Effect("iso", failing # "iso")>>
      delete == IF present THEN <<Effect("delete template", TRUE)>> ELSE <<>>
      clone == <<Effect("git clone", failing # "git clone")>>
      packer == <<Effect("packer build", failing # "packer build")>>
      rm == <<Effect("rm", TRUE)>>
      templates == withTemplate(inv.templates,
                                [name |-> cfg[1], version |-> cfg[2], vmid |-> next.ret[1]])
      unchanged == [inventory |-> inv, file |-> configFile]
  IN IF failing = "iso" THEN [thrown |-> "iso", effects |-> iso] @@ unchanged
     ELSE IF present /\ ~override THEN [thrown |-> "already exists", effects |-> iso] @@ unchanged
     ELSE IF next.thrown # "" THEN [thrown |-> next.thrown, effects |-> iso \o delete] @@ unchanged
     ELSE IF failing = "git clone"
     THEN [thrown |-> "git clone", effects |-> iso \o delete \o clone] @@ unchanged
     ELSE IF failing = "packer build"
     THEN [thrown |-> "Packer build failed", effects |-> iso \o delete \o clone \o packer \o rm]
            @@ unchanged
     ELSE IF configFile.kind # "json"
     THEN [thrown |-> "Packer build failed", effects |-> iso \o delete \o clone \o packer \o rm,
           inventory |-> [inv EXCEPT !.templates = templates], file |-> configFile]
     ELSE [thrown |-> "", effects |-> iso \o delete \o clone \o packer \o rm,
           inventory |-> [inv EXCEPT !.templates = templates],
           file |-> [configFile EXCEPT !.data.templates = templates]]

\* await packer.build(args.override)
PackerBuild(override, present, failing) ==
  /\ pkPc = "build"
  /\ \E r \in {build(pkInventory, pkConfig, file, override, present, failing,
                     getNextVmId(template, pkInventory))} :
     /\ pkInventory' = r.inventory
     /\ file' = r.file
     /\ effects' = effects \o r.effects
     /\ pkPc' = IF r.thrown = "" THEN "exit0" ELSE "exit1"
  /\ UNCHANGED <<partVars, tfVars, ledgerVars, fileAtStart, config, manifest, runs, bindings, pkConfig>>

\* the objects handed to updateInventory
UpdatedInventories == {[reserved |-> reservedA], [reserved |-> reservedB]}

\* a call of updateInventory(inventoryFile, updatedInventory)
UpdateInventory(updatedInventory) ==
  /\ Idle
  /\ runs < MaxRuns
  /\ runs' = runs + 1
  /\ \E r \in {updateInventory(file, updatedInventory)} :
     /\ file' = r.file
     /\ last' = Call("updateInventory", <<>>, <<>>, [thrown |-> r.thrown, ret |-> Undefined])
  /\ fileAtStart' = file
  /\ effects' = <<>>
  /\ NoTerraform
  /\ NoPacker
  /\ UNCHANGED <<partVars, inventory, bindings>>

NextRun ==
  \/ \E cfg \in RunConfigs, isDestroy \in BOOLEAN : StartRun(cfg, isDestroy)
  \/ LoadInventory
  \/ \E ok \in BOOLEAN, secrets \in SecretLists : PopulateBitwardenRefs(ok, secrets)
  \/ PopulateInventoryRefs
  \/ PopulateUpperLevelRefs
  \/ PopulateVmIds
  \/ PopulateIpAddresses
  \/ \E ok \in BOOLEAN : Clone(ok)
  \/ \E initOk \in BOOLEAN, planOk \in BOOLEAN : Plan(initOk, planOk)
  \/ \E ok \in BOOLEAN : Apply(ok)
  \/ Cleanup
  \/ \E cfg \in PackerConfigs : StartPacker(cfg)
  \/ \E ok \in BOOLEAN, secrets \in SecretLists : PackerInit(ok, secrets)
  \/ \E override \in BOOLEAN, present \in BOOLEAN,
        failing \in {"none", "iso", "git clone", "packer build"} :
       PackerBuild(override, present, failing)
  \/ \E updatedInventory \in UpdatedInventories : UpdateInventory(updatedInventory)

SpecRun == InitRun /\ [][NextRun]_vars

(***************************************************************************)
(* The passes called directly on bounded documents                         *)
(***************************************************************************)

\* the most string values a document of a directly called pass holds
MaxRefValues == 2

\* the most applications of one pass to a document
MaxPasses == 2

inventoryPrefix == <<"i", "n", "v", "e", "n", "t", "o", "r", "y", ":">>

configPrefix == <<"c", "o", "n", "f", "i", "g", ":">>

\* the token {inventory:<path>} or {config:<path>}
refToken(prefix, path) == <<"{">> \o prefix \o path \o <<"}">>

\* the dotted paths looked up in the inventory: a string, an item and a key
\* that do not exist, a number, an object, an array, a path through a string
RefPaths ==
  {<<"n", "e", "t", "w", "o", "r", "k", "s", ".", "l", "a", "n", ".", "g", "a", "t", "e", "w", "a", "y">>, <<"n", "e", "t", "w", "o", "r", "k", "s", ".", "w", "a", "n", ".", "g", "a", "t", "e", "w", "a", "y">>, <<"n", "e", "t", "w", "o", "r", "k", "s", ".", "l", "a", "n", ".", "m", "t", "u">>,
   <<"t", "e", "m", "p", "l", "a", "t", "e", "s", ".", "t", "3", "0", "0", ".", "v", "m", "i", "d">>, <<"n", "e", "t", "w", "o", "r", "k", "s", ".", "l", "a", "n", ".", "s", "t", "a", "t", "i", "c", "_", "r", "a", "n", "g", "e">>, <<"t", "e", "m", "p", "l", "a", "t", "e", "s">>,
   <<"n", "e", "t", "w", "o", "r", "k", "s", ".", "l", "a", "n", ".", "g", "a", "t", "e", "w", "a", "y", ".", "x">>}

\* the vault references: a string field, a secret that is not listed, a field
\* that does not exist, a field below one that does not exist, a number field
BwRefs == {<<"b", "w", ":", "s", ".", "p">>, <<"b", "w", ":", "t", ".", "p">>, <<"b", "w", ":", "s", ".", "q">>, <<"b", "w", ":", "s", ".", "q", ".", "r">>, <<"b", "w", ":", "s", ".", "n">>}

refSecret ==
  JsObject(<<<<"n", "a", "m", "e">>, <<"p">>, <<"n">>>>, <<JsString(<<"s">>), JsString(<<"w">>), JsNumber(5)>>)

RefSecretLists == {<<>>, <<refSecret>>}

RefValues ==
  {refToken(inventoryPrefix, path) : path \in RefPaths}
    \cup {refToken(configPrefix, <<"a">>), refToken(configPrefix, <<"z">>)}
    \cup {vmRef(vm, 1), vmRef(vm, 2), ipRef(lan, 1)}
    \cup BwRefs \cup {plain}

RefConfigs == seqsUpTo(RefValues, MaxRefValues)

\* the inventory the passes work on: vm:id:a and ip:lan:a are reserved
refInventory == runInventory(<<>>, reservedA)

NoRef(cfg, isDestroy) ==
  [op |-> "none", cfg |-> cfg, out |-> cfg, thrown |-> "", val |-> JsNull, path |-> <<>>,
   new |-> emptyReserved, deleted |-> emptyReserved, destroy |-> isDestroy, n |-> 0]

\* nothing but the passes is at work
Quiet ==
  /\ inventory = blankInventory
  /\ last = NoCall(inventory)
  /\ tfInventory = blankInventory
  /\ strConfig = <<>>
  /\ newInventory = emptyReserved
  /\ deletedInventory = emptyReserved
  /\ destroy = FALSE
  /\ tfPc = "idle"
  /\ NoWorkflow

InitRefs ==
  /\ Quiet
  /\ \E cfg \in RefConfigs, isDestroy \in BOOLEAN : refs = NoRef(cfg, isDestroy)
  /\ race = <<>>
  /\ isoPoll = <<>>
  /\ vault = <<>>
  /\ hostIp = <<>>

\* the pass op may be applied: to the configuration as given, or once more to
\* the document the same pass returned
MayApply(op) ==
  /\ refs.n < MaxPasses
  /\ refs.thrown = ""
  /\ refs.op \in {"none", op}

\* the record of a pass that returned r
Applied(op, r) ==
  [refs EXCEPT !.op = op, !.thrown = r.thrown, !.n = @ + 1,
               !.out = IF r.thrown = "" THEN r.config ELSE @]

\* config = populateInventoryRefs(config, inventory)
CallPopulateInventoryRefs ==
  /\ MayApply("populateInventoryRefs")
  /\ \E r \in {populateInventoryRefs(refs.out, refInventory)} : refs' = Applied("populateInventoryRefs", r)
  /\ UNCHANGED <<ledgerVars, tfVars, runVars, race, isoPoll, vault, hostIp>>

\* config = populateUpperLevelRefs(config)
CallPopulateUpperLevelRefs ==
  /\ MayApply("populateUpperLevelRefs")
  /\ \E r \in {populateUpperLevelRefs(refs.out)} : refs' = Applied("populateUpperLevelRefs", r)
  /\ UNCHANGED <<ledgerVars, tfVars, runVars, race, isoPoll, vault, hostIp>>

\* the record of an allocation pass that returned r; the text it returned is
\* kept as the configuration JSON.parse makes of it
Allocated(op, r, parsed) ==
  [refs EXCEPT !.op = op, !.thrown = r.thrown, !.n = @ + 1, !.new = r.new, !.deleted = r.deleted,
               !.out = IF r.thrown = "" /\ parsed.thrown = "" THEN parsed.config ELSE @]

\* populateVmIds(JSON.stringify(config, null, 2), destroy)
CallPopulateVmIds ==
  /\ MayApply("populateVmIds")
  /\ \E r \in {populateVmIds(stringify(refs.out), refInventory, refs.destroy, refs.new, refs.deleted)} :
       refs' = Allocated("populateVmIds", r, parse(r.strConfig))
  /\ UNCHANGED <<ledgerVars, tfVars, runVars, race, isoPoll, vault, hostIp>>

\* populateIpAddresses(JSON.stringify(config, null, 2), destroy)
CallPopulateIpAddresses ==
  /\ MayApply("populateIpAddresses")
  /\ \E r \in {populateIpAddresses(stringify(refs.out), refInventory, refs.destroy, refs.new, refs.deleted)} :
       refs' = Allocated("populateIpAddresses", r, parse(r.strConfig))
  /\ UNCHANGED <<ledgerVars, tfVars, runVars, race, isoPoll, vault, hostIp>>

\* config = await bw.fill(config), this.secrets being the fetched list
CallFill(secrets) ==
  /\ refs.n = 0
  /\ \E r \in {fill(refs.cfg, secrets)} :
       refs' = [Applied("fill", r) EXCEPT !.val = JsArray(secrets)]
  /\ UNCHANGED <<ledgerVars, tfVars, runVars, race, isoPoll, vault, hostIp>>

\* getRefValue(path, inventory)
CallGetRefValue(path) ==
  /\ refs.n = 0
  /\ \E r \in {getRefValue(path, inventoryObject(refInventory))} :
       refs' = [refs EXCEPT !.op = "getRefValue", !.path = path, !.thrown = r.thrown,
                            !.val = r.val, !.n = @ + 1]
  /\ UNCHANGED <<ledgerVars, tfVars, runVars, race, isoPoll, vault, hostIp>>

NextRefs ==
  \/ CallPopulateInventoryRefs
  \/ CallPopulateUpperLevelRefs
  \/ CallPopulateVmIds
  \/ CallPopulateIpAddresses
  \/ \E secrets \in RefSecretLists : CallFill(secrets)
  \/ \E path \in RefPaths : CallGetRefValue(path)

SpecRefs == InitRefs /\ [][NextRefs]_vars

(***************************************************************************)
(* Two Terraform runs on one inventory file                                *)
(***************************************************************************)

\* the two invocations of tf-operations.js
RaceRuns == {1, 2}

\* their configurations: one allocation token each
RaceConfigs == {<<vmRef(vm, 1)>>, <<vmRef(vm, 2)>>, <<ipRef(lan, 1)>>, <<ipRef(lan, 2)>>}

\* a run before its first statement; applied tells that its terraform apply succeeded
RaceStart(cfg) ==
  [pc |-> "loadInventory", config |-> cfg, inventory |-> blankInventory, strConfig |-> <<>>,
   newInventory |-> emptyReserved, applied |-> FALSE]

InitRace ==
  /\ NotStarted
  /\ race \in [RaceRuns -> {RaceStart(cfg) : cfg \in RaceConfigs}]
  /\ refs = <<>>
  /\ isoPoll = <<>>
  /\ vault = <<>>
  /\ hostIp = <<>>

\* the process with the lock file of the other run in its way: the load fails
\* while the other run is between its load and its exit
RaceLoadInventory_Locked(p) ==
  /\ race[p].pc = "loadInventory"
  /\ \E loaded \in {loadInventory(file)} :
       race' = [race EXCEPT
                  ![p].pc = IF loaded = Undefined
                               \/ \E q \in RaceRuns \ {p} : race[q].pc \notin {"loadInventory", "exit1"}
                            THEN "exit1" ELSE "populateBitwardenRefs",
                  ![p].inventory = IF loaded = Undefined THEN @ ELSE loaded[1]]
  /\ UNCHANGED <<ledgerVars, tfVars, runVars, refs, isoPoll, vault, hostIp>>

\* Terraform.init up to its first await: this.inventory = loadInventory(...)
RaceLoadInventory(p) ==
  /\ race[p].pc = "loadInventory"
  /\ \E loaded \in {loadInventory(file)} :
       race' = [race EXCEPT
                  ![p].pc = IF loaded = Undefined THEN "exit1" ELSE "populateBitwardenRefs",
                  ![p].inventory = IF loaded = Undefined THEN @ ELSE loaded[1]]
  /\ UNCHANGED <<ledgerVars, tfVars, runVars, refs, isoPoll, vault, hostIp>>

\* the allocation passes of Terraform.init on the configuration fromConfig
\* that populateUpperLevelRefs returned
raceAllocated(inv, vmResult) ==
  IF vmResult.thrown # "" THEN vmResult
  ELSE populateIpAddresses(vmResult.strConfig, inv, FALSE, vmResult.new, vmResult.deleted)

raceResolved(inv, fromConfig) ==
  IF fromConfig.thrown # ""
  THEN [strConfig |-> <<>>, new |-> emptyReserved, deleted |-> emptyReserved, thrown |-> fromConfig.thrown]
  ELSE raceAllocated(inv, populateVmIds(stringify(fromConfig.config), inv, FALSE,
                                        emptyReserved, emptyReserved))

\* Terraform.init from the vault pass to the end of the allocation passes
raceInit(inv, filled) ==
  IF filled.thrown # ""
  THEN [strConfig |-> <<>>, new |-> emptyReserved, deleted |-> emptyReserved, thrown |-> filled.thrown]
  ELSE IF populateInventoryRefs(filled.config, inv).thrown # ""
  THEN [strConfig |-> <<>>, new |-> emptyReserved, deleted |-> emptyReserved, thrown |-> "TypeError"]
  ELSE raceResolved(inv, populateUpperLevelRefs(populateInventoryRefs(filled.config, inv).config))

\* the rest of Terraform.init once the vault session has returned (ok) or failed
RaceResolve(p, ok, secrets) ==
  /\ race[p].pc = "populateBitwardenRefs"
  /\ \E r \in {raceInit(race[p].inventory, fill(race[p].config, secrets))} :
       race' = [race EXCEPT
                  ![p].pc = IF ok /\ r.thrown = "" THEN "apply" ELSE "exit1",
                  ![p].strConfig = IF ok /\ r.thrown = "" THEN r.strConfig ELSE @,
                  ![p].newInventory = IF ok /\ r.thrown = "" THEN r.new ELSE @]
  /\ UNCHANGED <<ledgerVars, tfVars, runVars, refs, isoPoll, vault, hostIp>>

\* git clone, terraform init, plan and apply (ok when all succeed); after a
\* successful apply updateInventoryWithNewEntries is called, which throws, and
\* the run exits without a write to the inventory file
RaceApply(p, ok) ==
  /\ race[p].pc = "apply"
  /\ race' = [race EXCEPT ![p].pc = "exit1", ![p].applied = ok]
  /\ updateInventoryWithNewEntries = Undefined
  /\ UNCHANGED <<ledgerVars, tfVars, runVars, refs, isoPoll, vault, hostIp>>

NextRace ==
  \E p \in RaceRuns :
    \/ RaceLoadInventory(p)
    \/ \E ok \in BOOLEAN, secrets \in SecretLists : RaceResolve(p, ok, secrets)
    \/ \E ok \in BOOLEAN : RaceApply(p, ok)

SpecRace == InitRace /\ [][NextRace]_vars

(***************************************************************************)
(* Packer.prototype.getHttpIp (src/lib/packer.js)                          *)
(***************************************************************************)

\* a number in the reach of the 32-bit operators, sign * 2^32 + hi * 2^16 + lo
\* with sign -1 or 0 and hi, lo in 0..65535
Num32(sign, hi, lo) == [sign |-> sign, hi |-> hi, lo |-> lo]

\* ToInt32: the number of the same 32 bits in -2^31 .. 2^31 - 1
toInt32(x) == Num32(IF x.hi >= 32768 THEN -1 ELSE 0, x.hi, x.lo)

\* x >>> 0: the number of the same 32 bits in 0 .. 2^32 - 1
toUint32(x) == Num32(0, x.hi, x.lo)

\* x << n: the shift count is taken modulo 32, the result is an int32
shiftBits(x, n) ==
  IF n < 16
  THEN Num32(0, ((x.hi * (2^n)) % 65536) + (x.lo \div (2^(16 - n))), (x.lo * (2^n)) % 65536)
  ELSE Num32(0, (x.lo * (2^(n - 16))) % 65536, 0)

shiftLeft(x, n) == toInt32(shiftBits(x, n % 32))

\* x + b for a number b of 0 .. 65535
plus(x, b) ==
  LET low == x.lo + b
      high == x.hi + low \div 65536
  IN Num32(x.sign + high \div 65536, high % 65536, low % 65536)

\* the bitwise and of two 16-bit halves
RECURSIVE and16(_, _, _)
and16(a, b, bits) ==
  IF bits = 0 THEN 0
  ELSE 2 * and16(a \div 2, b \div 2, bits - 1) + (IF a % 2 = 1 /\ b % 2 = 1 THEN 1 ELSE 0)

\* x & y: an int32
bitAnd(x, y) == toInt32(Num32(0, and16(x.hi, y.hi, 16), and16(x.lo, y.lo, 16)))

\* ~x: an int32
bitNot(x) == toInt32(Num32(0, 65535 - x.hi, 65535 - x.lo))

zero32 == Num32(0, 0, 0)

\* s.split('.').reduce((a, b) => ((a << 8) + parseInt(b, 10)) >>> 0, 0) >>> 0;
\* NaN >>> 0 is 0
RECURSIVE reduceOctets(_, _)
reduceOctets(parts, a) ==
  IF Len(parts) = 0 THEN a
  ELSE reduceOctets(Tail(parts),
                    IF parseInt(parts[1], 10) = NaN THEN zero32
                    ELSE toUint32(plus(shiftLeft(a, 8), parseInt(parts[1], 10))))

ipToInt(s) == toUint32(reduceOctets(split(s, <<".">>), zero32))

\* a mask shifted also for the prefix length 0
maskOf_Shifted(prefixLen) == toUint32(shiftLeft(bitNot(zero32), 32 - prefixLen))

\* prefixLen === 0 ? 0 : (~0 << (32 - prefixLen)) >>> 0
maskOf(prefixLen) ==
  IF prefixLen = 0 THEN zero32 ELSE toUint32(shiftLeft(bitNot(zero32), 32 - prefixLen))

\* \d+ from position i: the position after the longest run of digits
RECURSIVE digitsEnd(_, _)
digitsEnd(s, i) == IF i <= Len(s) /\ IsDigitIn(s[i], 10) THEN digitsEnd(s, i + 1) ELSE i

\* a run of digits from position i followed by the character c: the position of c, or 0
digitsThen(s, i, c) ==
  IF i = 0 THEN 0
  ELSE LET e == digitsEnd(s, i)
       IN IF e > i /\ e <= Len(s) /\ s[e] = c THEN e ELSE 0

\* /inet (\d+\.\d+\.\d+\.\d+)\/\d+/ anchored at position i: the group, or Undefined
inetAt(s, i) ==
  IF startsWithAt(s, i, <<"i", "n", "e", "t", " ">>)
  THEN LET d1 == digitsThen(s, i + 5, ".")
           d2 == digitsThen(s, IF d1 = 0 THEN 0 ELSE d1 + 1, ".")
           d3 == digitsThen(s, IF d2 = 0 THEN 0 ELSE d2 + 1, ".")
           d4 == digitsThen(s, IF d3 = 0 THEN 0 ELSE d3 + 1, "/")
       IN IF d4 # 0 /\ digitsEnd(s, d4 + 1) > d4 + 1 THEN Some(SubSeq(s, i + 5, d4 - 1))
          ELSE Undefined
  ELSE Undefined

\* line.match(...): the group of the leftmost match, or Undefined
RECURSIVE inetMatch(_, _)
inetMatch(s, i) ==
  IF i > Len(s) THEN Undefined
  ELSE IF inetAt(s, i) # Undefined THEN inetAt(s, i)
  ELSE inetMatch(s, i + 1)

\* the body of the loop for an address ip: TRUE when it is returned
onNetwork(ip, subnet) ==
  LET parts == split(subnet, <<"/">>)
      base == parts[1]
      prefixLen == IF Len(parts) > 1 /\ Len(parts[2]) > 0 THEN parseInt(parts[2], 10) ELSE 32
  IN IF Len(base) = 0 \/ prefixLen = NaN \/ prefixLen < 0 \/ prefixLen > 32 THEN FALSE
     ELSE bitAnd(ipToInt(ip), maskOf(prefixLen)) = bitAnd(ipToInt(base), maskOf(prefixLen))

\* for (const line of lines): the first address returned, or Undefined
RECURSIVE scanLines(_, _)
scanLines(lines, subnet) ==
  IF Len(lines) = 0 THEN Undefined
  ELSE IF inetMatch(lines[1], 1) # Undefined /\ onNetwork(inetMatch(lines[1], 1)[1], subnet)
  THEN inetMatch(lines[1], 1)
  ELSE scanLines(Tail(lines), subnet)

\* getHttpIp(networkName), output being what `ip addr show` printed
getHttpIp(networkName, inv, output) ==
  LET found == findNetwork(networkName, inv)
  IN IF found = Undefined THEN [thrown |-> "NetworkNotFound", ret |-> Undefined]
     ELSE IF scanLines(split(output, <<"\n">>), found[1].subnet) = Undefined
     THEN [thrown |-> "NoValidIp", ret |-> Undefined]
     ELSE [thrown |-> "", ret |-> scanLines(split(output, <<"\n">>), found[1].subnet)]

\* the most addresses of a listing
MaxListed == 2

\* a network of the Packer inventory
httpNet(name, subnet) ==
  [name |-> name, subnet |-> subnet, gateway |-> lanNet.gateway, dns |-> lanNet.dns,
   static_range |-> lanNet.static_range]

\* the networks: a /24, a /24 and a /9 with the top bit set, a /20, the
\* prefix lengths 0 and 32, no prefix length, and one above 32
HttpNetworks ==
  <<httpNet(<<"l", "a", "n">>, <<"1", "0", ".", "0", ".", "0", ".", "0", "/", "2", "4">>), httpNet(<<"t", "o", "p">>, <<"1", "9", "2", ".", "1", "6", "8", ".", "1", ".", "0", "/", "2", "4">>),
    httpNet(<<"w", "i", "d", "e">>, <<"1", "9", "2", ".", "1", "2", "8", ".", "0", ".", "0", "/", "9">>), httpNet(<<"m", "i", "d">>, <<"1", "0", ".", "0", ".", "1", "6", ".", "0", "/", "2", "0">>),
    httpNet(<<"a", "l", "l">>, <<"0", ".", "0", ".", "0", ".", "0", "/", "0">>), httpNet(<<"o", "n", "e">>, <<"1", "9", "2", ".", "1", "6", "8", ".", "1", ".", "9", "/", "3", "2">>),
    httpNet(<<"b", "a", "r", "e">>, <<"1", "0", ".", "0", ".", "0", ".", "5">>), httpNet(<<"b", "i", "g">>, <<"1", "0", ".", "0", ".", "0", ".", "0", "/", "3", "3">>)>>

HttpNetworkNames == {HttpNetworks[i].name : i \in 1..Len(HttpNetworks)} \cup {nonet}

httpInventory == [runInventory(<<>>, emptyReserved) EXCEPT !.networks = HttpNetworks]

\* the entries of a listing: the family, the address and the prefix length printed
Listed ==
  {[family |-> <<"i", "n", "e", "t">>, addr |-> <<"1", "2", "7", ".", "0", ".", "0", ".", "1">>, len |-> <<"8">>],
   [family |-> <<"i", "n", "e", "t">>, addr |-> <<"1", "0", ".", "0", ".", "0", ".", "5">>, len |-> <<"2", "4">>],
   [family |-> <<"i", "n", "e", "t">>, addr |-> <<"1", "0", ".", "0", ".", "3", "1", ".", "7">>, len |-> <<"2", "0">>],
   [family |-> <<"i", "n", "e", "t">>, addr |-> <<"1", "9", "2", ".", "1", "6", "8", ".", "1", ".", "9">>, len |-> <<"2", "4">>],
   [family |-> <<"i", "n", "e", "t">>, addr |-> <<"1", "9", "2", ".", "2", "0", "0", ".", "0", ".", "1">>, len |-> <<"9">>],
   [family |-> <<"i", "n", "e", "t", "6">>, addr |-> <<"f", "e", "8", "0", ":", ":", "1">>, len |-> <<"6", "4">>]}

Listings == {<<>>} \cup seqsUpTo(Listed, MaxListed)

\* the text `ip addr show` prints for a listing
RECURSIVE ipAddrShow(_)
ipAddrShow(listing) ==
  IF Len(listing) = 0 THEN <<"1", ":", " ", "l", "o", ":", " ", "<", "L", "O", "O", "P", "B", "A", "C", "K", ",", "U", "P", ">">>
  ELSE <<" ", " ", " ", " ">> \o listing[1].family \o <<" ">> \o listing[1].addr \o <<"/">> \o listing[1].len
         \o <<" ", "s", "c", "o", "p", "e", " ", "g", "l", "o", "b", "a", "l">> \o <<"\n">> \o ipAddrShow(Tail(listing))

InitHostIp ==
  /\ Quiet
  /\ \E networkName \in HttpNetworkNames, listing \in Listings :
       hostIp = [networkName |-> networkName, listing |-> listing, called |-> FALSE,
                 thrown |-> "", ret |-> Undefined]
  /\ refs = <<>>
  /\ race = <<>>
  /\ isoPoll = <<>>
  /\ vault = <<>>

\* const ip = await this.getHttpIp(networkName)
CallGetHttpIp ==
  /\ ~hostIp.called
  /\ \E r \in {getHttpIp(hostIp.networkName, httpInventory, ipAddrShow(hostIp.listing))} :
       hostIp' = [hostIp EXCEPT !.called = TRUE, !.thrown = r.thrown, !.ret = r.ret]
  /\ UNCHANGED <<ledgerVars, tfVars, runVars, refs, race, isoPoll, vault>>

NextHostIp == CallGetHttpIp

SpecHostIp == InitHostIp /\ [][NextHostIp]_vars

(***************************************************************************)
(* Packer.prototype.ensureIsoOnProxmox (src/lib/packer.js)                 *)
(***************************************************************************)

\* while (... retries < 24)
MaxRetries == 24

\* setTimeout(resolve, 5000)
PollInterval == 5000

\* Proxmox.prototype.checkForIso resolves true or false, or rejects
CheckOutcomes == {"present", "absent", "error"}

\* Proxmox.prototype.downloadIso resolves true (status 200 or 201) or
\* undefined (any other status below 500), or rejects
DownloadOutcomes == {"true", "undefined", "error"}

\* while (!isPresent && retries < 24)
pollAgain_IgnoresPresent(isPresent, retries) ==
  retries < MaxRetries

pollAgain(isPresent, retries) ==
  ~isPresent /\ retries < MaxRetries

InitIso ==
  /\ Quiet
  /\ isoPoll = [pc |-> "checkForIso", first |-> "none", downloads |-> <<>>,
                isPresent |-> FALSE, retries |-> 0, waits |-> <<>>, results |-> <<>>]
  /\ refs = <<>>
  /\ race = <<>>
  /\ vault = <<>>
  /\ hostIp = <<>>

\* const isPresent = await this.proxmox.checkForIso(options); if (!isPresent) ...
IsoFirstCheck ==
  /\ isoPoll.pc = "checkForIso"
  /\ \E o \in CheckOutcomes :
       isoPoll' = [isoPoll EXCEPT !.first = o,
                                  !.pc = CASE o = "present" -> "returned"
                                           [] o = "absent" -> "downloadIso"
                                           [] OTHER -> "thrown"]
  /\ UNCHANGED <<ledgerVars, tfVars, runVars, refs, race, vault, hostIp>>

\* await this.proxmox.downloadIso(options); let isPresent = false, retries = 0;
\* and the first evaluation of the loop condition
IsoDownload ==
  /\ isoPoll.pc = "downloadIso"
  /\ \E o \in DownloadOutcomes :
       isoPoll' = [isoPoll EXCEPT !.downloads = Append(@, o),
                                  !.isPresent = FALSE,
                                  !.retries = 0,
                                  !.pc = IF o = "error" THEN "thrown"
                                         ELSE IF pollAgain(FALSE, 0) THEN "setTimeout"
                                         ELSE "returned"]
  /\ UNCHANGED <<ledgerVars, tfVars, runVars, refs, race, vault, hostIp>>

\* await new Promise(resolve => setTimeout(resolve, 5000))
IsoWait ==
  /\ isoPoll.pc = "setTimeout"
  /\ isoPoll' = [isoPoll EXCEPT !.waits = Append(@, PollInterval), !.pc = "poll"]
  /\ UNCHANGED <<ledgerVars, tfVars, runVars, refs, race, vault, hostIp>>

\* isPresent = await this.proxmox.checkForIso(options); retries++; and the
\* next evaluation of the loop condition; return
IsoPoll ==
  /\ isoPoll.pc = "poll"
  /\ \E o \in CheckOutcomes :
       isoPoll' = [isoPoll EXCEPT !.results = Append(@, o),
                                  !.isPresent = IF o = "error" THEN @ ELSE o = "present",
                                  !.retries = IF o = "error" THEN @ ELSE @ + 1,
                                  !.pc = IF o = "error" THEN "thrown"
                                         ELSE IF pollAgain(o = "present", isoPoll.retries + 1)
                                         THEN "setTimeout"
                                         ELSE "returned"]
  /\ UNCHANGED <<ledgerVars, tfVars, runVars, refs, race, vault, hostIp>>

NextIso == IsoFirstCheck \/ IsoDownload \/ IsoWait \/ IsoPoll

\* every awaited promise settles: the HTTP requests carry timeouts (120000 and
\* 300000 ms) and the timer fires
SpecIso == InitIso /\ [][NextIso]_vars /\ WF_vars(NextIso)

(***************************************************************************)
(* populateBitwardenRefs (src/lib/function.js) on the bw commands of       *)
(* src/lib/bw.js, one await at a time                                      *)
(***************************************************************************)

\* the exit codes of a bw command
ExitCodes == {0, 1, 2}

\* child.on('close', code => ...): the codes on which the command's promise resolves
resolves(cmd, code) ==
  CASE cmd \in {"login", "unlock", "lock"} -> code \in {0, 1}
    [] cmd = "logout" -> code = 0
    [] cmd = "list" -> code = 0
    [] OTHER -> FALSE

\* the configurations of the session: one string, a reference into the vault
\* or a plain string
VaultConfigs == {<<x>> : x \in BwRefs} \cup {<<plain>>}

\* new Promise(async (resolve, reject) => { let bw; ...
InitVault ==
  /\ Quiet
  /\ \E auth \in BOOLEAN, cfg \in VaultConfigs :
       vault = [pc |-> "new", auth |-> auth, cfg |-> cfg, calls |-> <<>>, codes |-> <<>>,
                secrets |-> <<>>,
                err |-> [cmd |-> "", at |-> 0], settled |-> "pending",
                carried |-> [cmd |-> "", at |-> 0]]
  /\ refs = <<>>
  /\ race = <<>>
  /\ isoPoll = <<>>
  /\ hostIp = <<>>

\* a call of the try block: on rejection control passes to the catch block
attempt(v, cmd, ok, next) ==
  LET called == Append(v.calls, [cmd |-> cmd, ok |-> ok])
  IN IF ok THEN [v EXCEPT !.calls = called, !.pc = next]
     ELSE [v EXCEPT !.calls = called, !.pc = "catch", !.err = [cmd |-> cmd, at |-> Len(called)]]

\* spawn(this.options.executable, [cmd, ...]) closing with the exit code
spawn(v, cmd, code, next) ==
  [attempt(v, cmd, resolves(cmd, code), next) EXCEPT !.codes = Append(@, code)]

\* bw = new Bw(bwAuth): the schema rejects options without clientId or
\* clientSecret; bw is then undefined in the catch block, which only rejects
VaultNew ==
  /\ vault.pc = "new"
  /\ vault' = IF vault.auth THEN [vault EXCEPT !.pc = "login"]
              ELSE [vault EXCEPT !.pc = "done", !.err = [cmd |-> "new", at |-> 0],
                                 !.settled = "rejected", !.carried = [cmd |-> "new", at |-> 0]]
  /\ UNCHANGED <<ledgerVars, tfVars, runVars, refs, race, isoPoll, hostIp>>

\* await bw.login()
VaultLogin ==
  /\ vault.pc = "login"
  /\ \E code \in ExitCodes : vault' = spawn(vault, "login", code, "unlock")
  /\ UNCHANGED <<ledgerVars, tfVars, runVars, refs, race, isoPoll, hostIp>>

\* await bw.unlock()
VaultUnlock ==
  /\ vault.pc = "unlock"
  /\ \E code \in ExitCodes : vault' = spawn(vault, "unlock", code, "list")
  /\ UNCHANGED <<ledgerVars, tfVars, runVars, refs, race, isoPoll, hostIp>>

\* await bw.list(): this.secrets = JSON.parse(output.trim())
VaultList ==
  /\ vault.pc = "list"
  /\ \E code \in ExitCodes, secrets \in RefSecretLists :
       /\ resolves("list", code) \/ secrets = <<>>
       /\ vault' = [spawn(vault, "list", code, "fillInventory")
                      EXCEPT !.secrets = IF resolves("list", code) THEN secrets ELSE @]
  /\ UNCHANGED <<ledgerVars, tfVars, runVars, refs, race, isoPoll, hostIp>>

\* inventory = await bw.fill(inventory)
VaultFillInventory ==
  /\ vault.pc = "fillInventory"
  /\ vault' = attempt(vault, "fill(inventory)",
                      fillInventory(refInventory, vault.secrets).thrown = "", "fillConfig")
  /\ UNCHANGED <<ledgerVars, tfVars, runVars, refs, race, isoPoll, hostIp>>

\* config = await bw.fill(config)
VaultFillConfig ==
  /\ vault.pc = "fillConfig"
  /\ \E r \in {fill(vault.cfg, vault.secrets)} :
       vault' = [attempt(vault, "fill(config)", r.thrown = "", "lock")
                   EXCEPT !.cfg = IF r.thrown = "" THEN r.config ELSE @]
  /\ UNCHANGED <<ledgerVars, tfVars, runVars, refs, race, isoPoll, hostIp>>

\* await bw.lock()
VaultLock ==
  /\ vault.pc = "lock"
  /\ \E code \in ExitCodes : vault' = spawn(vault, "lock", code, "logout")
  /\ UNCHANGED <<ledgerVars, tfVars, runVars, refs, race, isoPoll, hostIp>>

\* await bw.logout(); return resolve({ config, inventory })
VaultLogout ==
  /\ vault.pc = "logout"
  /\ \E code \in ExitCodes :
       vault' = [spawn(vault, "logout", code, "done")
                   EXCEPT !.settled = IF resolves("logout", code) THEN "resolved" ELSE @]
  /\ UNCHANGED <<ledgerVars, tfVars, runVars, refs, race, isoPoll, hostIp>>

\* catch (err) { if (bw) { try { await bw.lock(); ... } catch (e) {} } reject(err) }:
\* a rejected lock leaves the inner try block
VaultCleanupLock ==
  /\ vault.pc = "catch"
  /\ \E code \in ExitCodes :
       vault' = IF resolves("lock", code)
                THEN [vault EXCEPT !.calls = Append(@, [cmd |-> "lock", ok |-> TRUE]),
                                   !.codes = Append(@, code), !.pc = "cleanupLogout"]
                ELSE [vault EXCEPT !.calls = Append(@, [cmd |-> "lock", ok |-> FALSE]),
                                   !.codes = Append(@, code), !.pc = "done", !.settled = "rejected", !.carried = vault.err]
  /\ UNCHANGED <<ledgerVars, tfVars, runVars, refs, race, isoPoll, hostIp>>

\* ... await bw.logout(); } catch (e) { // ignore } } reject(err)
VaultCleanupLogout ==
  /\ vault.pc = "cleanupLogout"
  /\ \E code \in ExitCodes :
       vault' = [vault EXCEPT !.calls = Append(@, [cmd |-> "logout", ok |-> resolves("logout", code)]),
                              !.codes = Append(@, code),
                              !.pc = "done", !.settled = "rejected", !.carried = vault.err]
  /\ UNCHANGED <<ledgerVars, tfVars, runVars, refs, race, isoPoll, hostIp>>

NextVault ==
  \/ VaultNew
  \/ VaultLogin
  \/ VaultUnlock
  \/ VaultList
  \/ VaultFillInventory
  \/ VaultFillConfig
  \/ VaultLock
  \/ VaultLogout
  \/ VaultCleanupLock
  \/ VaultCleanupLogout

SpecVault == InitVault /\ [][NextVault]_vars

(***************************************************************************)
(* Properties                                                              *)
(***************************************************************************)

\* the entries of a reserved list carry pairwise distinct VM IDs
DistinctVmIds(list) == \A i, j \in 1..Len(list) : i # j => list[i].vmid # list[j].vmid

\* the entries of a reserved list carry pairwise distinct addresses
DistinctIps(list) == \A i, j \in 1..Len(list) : i # j => list[i].ip # list[j].ip

\* every refId occurs at most once in a reserved list
DistinctRefIds(list) == \A i, j \in 1..Len(list) : i # j => list[i].refId # list[j].refId

\* the number of entries of a reserved list that carry refId
CountRefId(list, refId) == Cardinality({i \in 1..Len(list) : list[i].refId = refId})

\* a list without its k-th entry (k counted from 1)
WithoutEntry(list, k) == [i \in 1..(Len(list) - 1) |-> IF i < k THEN list[i] ELSE list[i + 1]]

\* the position (from 1) of the entry of refId in a list that holds one
EntryOf(list, refId) == CHOOSE i \in 1..Len(list) : list[i].refId = refId

HasEntry(list, refId) == \E i \in 1..Len(list) : list[i].refId = refId

\* the step is a call (every call increases last.n)
IsCall == last'.n = last.n + 1

\* C1: a reserveIpAddress call with a refId that has no entry yet, made on a
\* list whose entries carry pairwise distinct addresses, leaves the entries
\* with pairwise distinct addresses: the new label gets an address of its own
\* (the networks of the ledger have disjoint ranges).
C1_DistinctLabelsGetDistinctAddresses ==
  [][(IsCall /\ last'.op = "reserveIpAddress" /\ last'.thrown = ""
        /\ ~HasEntry(inventory.reserved.ips, last'.refId)
        /\ DistinctIps(inventory.reserved.ips)) =>
       DistinctIps(inventory'.reserved.ips)]_vars

\* C2: after any sequence of reserveVmId and releaseVmId calls no two
\* entries of reserved.vmids share a vmid and none has a template's vmid.
C2_ReservedVmIdsDistinct ==
  /\ DistinctVmIds(inventory.reserved.vmids)
  /\ \A i \in 1..Len(inventory.reserved.vmids), j \in 1..Len(inventory.templates) :
       inventory.reserved.vmids[i].vmid # inventory.templates[j].vmid

\* a template ID was passed over: the ledger holds the ID after a template's
C2_Witness ==
  /\ last.op = "reserveVmId"
  /\ last.arg = template
  /\ last.thrown = ""
  /\ ~HasEntry(last.pre.reserved.vmids, last.refId)
  /\ \E j \in 1..Len(inventory.templates) : inventory.templates[j].vmid + 1 = last.ret.num[1]
  /\ Len(inventory.reserved.vmids) >= 2

\* C3: one allocation pass (populateVmIds, then populateIpAddresses) over a
\* document none of whose tokens is reserved yet gives the distinct tokens
\* pairwise distinct values: the entries of newInventory are pairwise distinct.
C3_PassAllocatesDistinctValues ==
  (tfPc = "allocated" /\ ~destroy /\ tfInventory.reserved = emptyReserved) =>
    (DistinctVmIds(newInventory.vmids) /\ DistinctIps(newInventory.ips))

\* the fixed inclusive range of a type, as the specification states it
RangeOfType(type) ==
  CASE type = baremetal -> 0..99
    [] type = vm -> 100..199
    [] type = lxc -> 200..299
    [] type = template -> 300..399

\* templates[].vmid union reserved.vmids[].vmid
UsedSet(inv) ==
  {inv.templates[i].vmid : i \in 1..Len(inv.templates)}
    \cup {inv.reserved.vmids[i].vmid : i \in 1..Len(inv.reserved.vmids)}

Minimum(S) == CHOOSE m \in S : \A k \in S : m <= k

\* C4: getNextVmId returns the minimum of the type's range minus the used
\* set, and fails exactly when every ID of the range is used.
C4_NextVmIdIsMinimumFree ==
  (last.op = "getNextVmId" /\ last.arg \in {baremetal, vm, lxc, template}) =>
    LET free == RangeOfType(last.arg) \ UsedSet(last.pre)
    IN IF free = {} THEN last.thrown # "" /\ last.ret = Num(Undefined)
       ELSE last.thrown = "" /\ last.ret = Num(Some(Minimum(free)))

\* scenario B: a template holds 300, type vm gets 100
C4_Witness ==
  /\ last.op = "getNextVmId"
  /\ last.arg = vm
  /\ \E i \in 1..Len(last.pre.templates) : last.pre.templates[i].vmid = 300
  /\ last.ret = Num(Some(100))

\* the numeric value of an address within its own family
AddressValue(ip) == IF isIP(ip) = 4 THEN ipv4ToBig(ip) ELSE ipv6ToBig(ip)

\* the addresses of the interfaces that the hosts have on a network
HostIpsOn(networkName, inv) ==
  UNION {{inv.hosts[h].interfaces[k].ip :
            k \in {k2 \in 1..Len(inv.hosts[h].interfaces) :
                     inv.hosts[h].interfaces[k2].network = networkName}} :
         h \in 1..Len(inv.hosts)}

\* the values the claim excludes: gateway, dns and the hosts' addresses on
\* the network (an address of the other family is no address of the range)
ExcludedValues(netCfg, inv, version) ==
  {AddressValue(a) : a \in {b \in {netCfg.gateway, netCfg.dns} \cup HostIpsOn(netCfg.name, inv) :
                              isIP(b) = version}}

\* an address of the range printed as the code prints it, with the prefix
\* length of the subnet when it has one
Printed(value, netCfg, version) ==
  LET ipStr == IF version = 4 THEN bigToIpv4(value) ELSE bigToIpv6(value)
      parts == split(netCfg.subnet, <<"/">>)
  IN IF Len(parts) = 2 /\ Len(parts[2]) > 0 THEN ipStr \o <<"/">> \o parts[2] ELSE ipStr

\* the network of a name that the inventory holds
NetworkOf(networkName, inv) ==
  inv.networks[CHOOSE i \in 1..Len(inv.networks) : inv.networks[i].name = networkName]

\* the network is in the inventory and its static_range is a range start <= end of one family
ValidRange(networkName, inv) ==
  /\ \E i \in 1..Len(inv.networks) : inv.networks[i].name = networkName
  /\ LET range == NetworkOf(networkName, inv).static_range
     IN /\ isIP(range.start) # 0
        /\ isIP(range.start) = isIP(range.end)
        /\ AddressValue(range.start) <= AddressValue(range.end)

\* C5: for a network whose static_range has start <= end, getNextIpAddress
\* returns the lowest address of the range that is not the gateway, the dns
\* or a host's address on that network, with the prefix length suffix; it
\* fails when every address of the range is excluded.
C5_NextIpIsLowestFree ==
  (last.op = "getNextIpAddress" /\ ValidRange(last.arg, last.pre)) =>
    LET netCfg == NetworkOf(last.arg, last.pre)
        version == isIP(netCfg.static_range.start)
        free == (AddressValue(netCfg.static_range.start)..AddressValue(netCfg.static_range.end))
                  \ ExcludedValues(netCfg, last.pre, version)
    IN IF free = {} THEN last.thrown # ""
       ELSE last.thrown = "" /\ last.ret = Str(Some(Printed(Minimum(free), netCfg, version)))

\* C6: getNextVmId and getNextIpAddress leave the inventory as it was, and
\* a call that repeats the previous request has the previous outcome.
C6_AllocatorReadsOnly ==
  [][(IsCall /\ last'.op \in {"getNextVmId", "getNextIpAddress"}) =>
       /\ inventory' = inventory
       /\ (last.op = last'.op /\ last.arg = last'.arg) =>
            (last'.ret = last.ret /\ last'.thrown = last.thrown)]_vars

\* a second allocator call has returned a value
C6_Witness ==
  /\ last.n = 2
  /\ last.op = "getNextIpAddress"
  /\ last.thrown = ""
  /\ Len(last.pre.hosts) > 0

\* C7: reserve called with a refId that has an entry returns the entry's
\* value and leaves the inventory unchanged; called twice in a row with one
\* refId it returns the same value twice and the list holds one entry for it.
C7_ReserveIsIdempotent ==
  [][IsCall =>
       /\ (last'.op = "reserveVmId" /\ HasEntry(inventory.reserved.vmids, last'.refId)) =>
            /\ last'.thrown = ""
            /\ last'.ret = Num(Some(inventory.reserved.vmids[EntryOf(inventory.reserved.vmids, last'.refId)].vmid))
            /\ inventory' = inventory
       /\ (last'.op = "reserveIpAddress" /\ HasEntry(inventory.reserved.ips, last'.refId)) =>
            /\ last'.thrown = ""
            /\ last'.ret = Str(Some(inventory.reserved.ips[EntryOf(inventory.reserved.ips, last'.refId)].ip))
            /\ inventory' = inventory
       /\ (last.op = "reserveVmId" /\ last.thrown = "" /\ last'.op = "reserveVmId" /\ last'.refId = last.refId) =>
            /\ last'.ret = last.ret
            /\ CountRefId(inventory'.reserved.vmids, last.refId) = 1
       /\ (last.op = "reserveIpAddress" /\ last.thrown = "" /\ last'.op = "reserveIpAddress" /\ last'.refId = last.refId) =>
            /\ last'.ret = last.ret
            /\ CountRefId(inventory'.reserved.ips, last.refId) = 1]_vars

\* a reserve call has found the entry of its refId, the newest of two
C7_Witness ==
  /\ last.n >= 2
  /\ last.op = "reserveIpAddress"
  /\ last.thrown = ""
  /\ HasEntry(last.pre.reserved.ips, last.refId)
  /\ last.pre.reserved.ips[Len(last.pre.reserved.ips)].refId = last.refId
  /\ Len(last.pre.reserved.ips) >= 2

\* C8: every refId occurs at most once in reserved.vmids and at most once
\* in reserved.ips after any sequence of reserve and release calls.
C8_RefIdsUnique ==
  /\ DistinctRefIds(inventory.reserved.vmids)
  /\ DistinctRefIds(inventory.reserved.ips)

\* a refId was released and reserved again while another one stayed
C8_Witness ==
  /\ last.n >= 3
  /\ last.op = "reserveVmId"
  /\ last.thrown = ""
  /\ Len(inventory.reserved.vmids) >= 2
  /\ Len(last.pre.reserved.vmids) < Len(inventory.reserved.vmids)
  /\ inventory.reserved.vmids[1].vmid > inventory.reserved.vmids[2].vmid

\* C9 as stated: reserve(refId) followed by release(refId) restores the
\* reserved list to its content before the reserve.
C9_ReserveReleaseRestores ==
  [][IsCall =>
       /\ (last.op = "reserveVmId" /\ last.thrown = "" /\ last'.op = "releaseVmId" /\ last'.refId = last.refId) =>
            inventory'.reserved = last.pre.reserved
       /\ (last.op = "reserveIpAddress" /\ last.thrown = "" /\ last'.op = "releaseIpAddress" /\ last'.refId = last.refId) =>
            inventory'.reserved = last.pre.reserved]_vars

\* C9 amended: releasing a refId that is present returns the value bound to
\* it and removes that one entry and no other (a released VM ID is in no
\* remaining entry); when the reserve before it created the entry, the pair
\* restores the reserved lists and the allocator hands out the value again.
C9_ReleaseReturnsAndRemoves ==
  [][IsCall =>
       /\ (last'.op = "releaseVmId" /\ HasEntry(inventory.reserved.vmids, last'.refId)) =>
            LET k == EntryOf(inventory.reserved.vmids, last'.refId)
            IN /\ last'.thrown = ""
               /\ last'.ret = Num(Some(inventory.reserved.vmids[k].vmid))
               /\ inventory' = [inventory EXCEPT !.reserved.vmids = WithoutEntry(@, k)]
               /\ \A i \in 1..Len(inventory'.reserved.vmids) :
                    inventory'.reserved.vmids[i].vmid # last'.ret.num[1]
               /\ (last.op = "reserveVmId" /\ last.thrown = "" /\ last.refId = last'.refId
                     /\ ~HasEntry(last.pre.reserved.vmids, last.refId)) =>
                    /\ last'.ret = last.ret
                    /\ inventory'.reserved = last.pre.reserved
                    /\ Num(getNextVmId(last.arg, inventory').ret) = last.ret
       /\ (last'.op = "releaseIpAddress" /\ HasEntry(inventory.reserved.ips, last'.refId)) =>
            LET k == EntryOf(inventory.reserved.ips, last'.refId)
            IN /\ last'.thrown = ""
               /\ last'.ret = Str(Some(inventory.reserved.ips[k].ip))
               /\ inventory' = [inventory EXCEPT !.reserved.ips = WithoutEntry(@, k)]
               /\ (last.op = "reserveIpAddress" /\ last.thrown = "" /\ last.refId = last'.refId
                     /\ ~HasEntry(last.pre.reserved.ips, last.refId)) =>
                    /\ last'.ret = last.ret
                    /\ inventory'.reserved = last.pre.reserved
                    /\ Str(getNextIpAddress(last.arg, inventory').ret) = last.ret]_vars

\* the second call released the entry that the first call created, next to
\* an entry that stays (the inventories without hosts hold no entry for the
\* second label at the start)
C9_Witness ==
  /\ last.n = 2
  /\ last.op = "releaseVmId"
  /\ last.thrown = ""
  /\ last.refId = vmRef(vm, 2)
  /\ inventory.hosts = <<>>
  /\ Len(inventory.reserved.vmids) = 1

\* C10: release called with a refId that has no entry returns undefined,
\* raises no error and leaves the list unchanged.
C10_ReleaseAbsentIsNoOp ==
  /\ (last.op = "releaseVmId" /\ ~HasEntry(last.pre.reserved.vmids, last.refId)) =>
       (last.thrown = "" /\ last.ret = Num(Undefined) /\ inventory = last.pre)
  /\ (last.op = "releaseIpAddress" /\ ~HasEntry(last.pre.reserved.ips, last.refId)) =>
       (last.thrown = "" /\ last.ret = Num(Undefined) /\ inventory = last.pre)

\* C11: no entry that reserveVmId adds to reserved.vmids has the vmid of a
\* committed host or of a template of the same inventory.
C11_NewEntryAvoidsHostsAndTemplates ==
  [][(IsCall /\ last'.op = "reserveVmId" /\ last'.thrown = ""
        /\ ~HasEntry(inventory.reserved.vmids, last'.refId)) =>
       /\ \A h \in 1..Len(inventory'.hosts) : inventory'.hosts[h].vmid # last'.ret.num[1]
       /\ \A j \in 1..Len(inventory'.templates) :
            inventory'.templates[j].vmid # last'.ret.num[1]]_vars

\* the run has executed the command with that outcome
Ran(cmd, ok) == \E i \in 1..Len(effects) : effects[i] = Effect(cmd, ok)

\* C12: when the run fails (terraform apply or any earlier step), the
\* inventory file is what it was when the run started.
C12_FailedRunLeavesFileUntouched ==
  (tfPc \in {"failed", "exit1"} /\ ~Ran("terraform apply", TRUE)) => file = fileAtStart

\* a run that allocated a new VM ID and whose terraform apply failed
C12_Witness ==
  /\ tfPc = "failed"
  /\ Ran("terraform apply", FALSE)
  /\ Len(newInventory.vmids) > 0
  /\ file = fileAtStart

\* the entries of a reserved list as a set
Entries(list) == {list[i] : i \in 1..Len(list)}

\* C13: when terraform apply has succeeded, the file's reserved lists are the
\* lists read at the start of the run plus newInventory minus deletedInventory.
C13_SuccessfulApplyMergesDeltas ==
  (tfPc \in {"applied", "failed"} /\ Ran("terraform apply", TRUE)) =>
     /\ file.kind = "json"
     /\ Entries(file.data.reserved.vmids) =
          (Entries(fileAtStart.data.reserved.vmids) \cup Entries(newInventory.vmids))
            \ Entries(deletedInventory.vmids)
     /\ Entries(file.data.reserved.ips) =
          (Entries(fileAtStart.data.reserved.ips) \cup Entries(newInventory.ips))
            \ Entries(deletedInventory.ips)

\* C14: a non-destroy run whose apply succeeds binds every token that an
\* earlier successful run bound to the same value, and gives no value of an
\* earlier run to a different token.
C14_BindingsStableAcrossRuns ==
  [][(tfPc = "apply" /\ tfPc' # "apply" /\ ~destroy
        /\ effects' = Append(effects, Effect("terraform apply", TRUE))) =>
       \A b \in bindings, c \in runBindings : (b.refId = c.refId) <=> (b.value = c.value)]_vars

\* the blocks of the inventory file that a write to the reserved block leaves alone
OtherBlocks(f) ==
  [kind |-> f.kind, proxmox |-> f.data.proxmox, terraform |-> f.data.terraform,
   networks |-> f.data.networks, hosts |-> f.data.hosts, templates |-> f.data.templates]

\* C15 as stated: every write to the inventory file changes the reserved
\* block only; proxmox, terraform, networks, hosts and templates stay as they were.
C15_WritesChangeReservedOnly ==
  [][file' # file => OtherBlocks(file') = OtherBlocks(file)]_vars

\* C15, amended: a write by updateInventory changes the reserved block only, a
\* write by Packer.build the templates list only; proxmox, terraform, networks
\* and hosts stay as they were in either case.
C15_WritesChangeReservedOrTemplates ==
  [][file' # file =>
       /\ file'.kind = file.kind
       /\ file'.data.proxmox = file.data.proxmox
       /\ file'.data.terraform = file.data.terraform
       /\ file'.data.networks = file.data.networks
       /\ file'.data.hosts = file.data.hosts
       /\ (pkPc = "build" => file'.data.reserved = file.data.reserved)
       /\ (pkPc # "build" => file'.data.templates = file.data.templates)]_vars

\* updateInventory has replaced a non-empty reserved block of a file that
\* holds a template and two networks
C15_Witness ==
  /\ last.op = "updateInventory"
  /\ last.thrown = ""
  /\ file # fileAtStart
  /\ file.data.reserved = reservedB
  /\ Len(file.data.templates) > 0
  /\ Len(file.data.networks) = 2

\* C16: loadInventory returns null for an unreadable file, for text that is
\* not JSON and for a document that violates the schema; a Terraform run, a
\* Packer run and updateInventory that get null end with an error and have
\* made no vault call, resolved nothing, allocated nothing, started no
\* process and written nothing.
C16_NullInventoryAbortsFirst ==
  [][loadInventory(file) = Undefined =>
       /\ (tfPc = "loadInventory" /\ tfPc' # tfPc) =>
            /\ tfPc' = "failed"
            /\ effects' = <<>>
            /\ UNCHANGED <<file, config, strConfig, newInventory, deletedInventory>>
       /\ (pkPc = "init" /\ pkPc' # pkPc) =>
            /\ pkPc' = "exit1"
            /\ effects' = <<>>
            /\ UNCHANGED <<file, pkConfig>>
       /\ (IsCall /\ last'.op = "updateInventory") =>
            /\ last'.thrown # ""
            /\ file' = file]_vars

\* a Terraform run that stopped at an inventory file whose document has a key
\* the schema does not name
C16_Witness ==
  /\ tfPc = "failed"
  /\ file.kind = "json"
  /\ Len(file.data.hosts) > 0
  /\ loadInventory(file) = Undefined
  /\ effects = <<>>
  /\ newInventory = emptyReserved

\* the inventory has a network of that name
HasNetwork(networkName, inv) == \E i \in 1..Len(inv.networks) : inv.networks[i].name = networkName

\* C17: getNextIpAddress throws and returns no address when no network has
\* the name, when static_range lacks start or end, when start and end are not
\* addresses of one family, and when start is above end; it throws the error
\* of the first of these checks that fails, whatever a scan would meet.
C17_RangeChecksComeFirst ==
  last.op = "getNextIpAddress" =>
    IF ~HasNetwork(last.arg, last.pre) THEN last.thrown = "NetworkNotFound" /\ last.ret = Str(Undefined)
    ELSE
      LET range == NetworkOf(last.arg, last.pre).static_range
      IN IF Len(range.start) = 0 \/ Len(range.end) = 0
         THEN last.thrown = "InvalidStaticRange" /\ last.ret = Str(Undefined)
         ELSE IF isIP(range.start) = 0 \/ isIP(range.start) # isIP(range.end)
         THEN last.thrown = "InvalidIpVersion" /\ last.ret = Str(Undefined)
         ELSE IF AddressValue(range.start) > AddressValue(range.end)
         THEN last.thrown = "StartGreaterThanEnd" /\ last.ret = Str(Undefined)
         ELSE last.thrown \notin
                {"NetworkNotFound", "InvalidStaticRange", "InvalidIpVersion", "StartGreaterThanEnd"}

\* the call on the network whose start is above its end and whose gateway
\* cannot be converted in the family of the range
C17_Witness ==
  /\ last.op = "getNextIpAddress"
  /\ last.arg = backNet.name
  /\ last.thrown = "StartGreaterThanEnd"
  /\ isIP(NetworkOf(last.arg, last.pre).gateway) = 6


\* C18: in a destroy run the allocation passes create no reservation:
\* newInventory stays empty (getNextVmId and getNextIpAddress, whose results
\* are the only entries pushed to it, are not called), and every entry of
\* deletedInventory is an existing reservation of the inventory.
C18_DestroyCreatesNoReservation ==
  destroy =>
    /\ newInventory = emptyReserved
    /\ \A i \in 1..Len(deletedInventory.vmids) :
         findByRefId(tfInventory.reserved.vmids, deletedInventory.vmids[i].refId)
           = Some(deletedInventory.vmids[i])
    /\ \A i \in 1..Len(deletedInventory.ips) :
         findByRefId(tfInventory.reserved.ips, deletedInventory.ips[i].refId)
           = Some(deletedInventory.ips[i])

\* C19: after populateVmIds has returned the document holds no VM-ID token,
\* and after populateIpAddresses has returned it holds no IP token either.
C19_NoTokenRemains ==
  /\ tfPc \in {"populateIpAddresses", "allocated"} => matchAll(strConfig, "vmIdRegex", 1) = <<>>
  /\ tfPc = "allocated" => matchAll(strConfig, "ipRegex", 1) = <<>>


\* the positions of Terraform.init, in the order of its statements
InitOrder ==
  <<"loadInventory", "populateBitwardenRefs", "populateInventoryRefs", "populateUpperLevelRefs",
    "populateVmIds", "populateIpAddresses", "allocated">>

\* the index of a position in InitOrder, or 0
InitIndex(pc) == IF \E i \in 1..Len(InitOrder) : InitOrder[i] = pc
                 THEN CHOOSE i \in 1..Len(InitOrder) : InitOrder[i] = pc ELSE 0

\* C20: Terraform.init runs the passes vault, inventory, parent-config, VM-ID
\* allocation, IP allocation in this order: from each position the run goes
\* to the next one or fails, a pass has left no trace before its turn (no
\* vault session before the vault pass, no document text and no allocation
\* before the VM-ID pass, no IP entry before the IP pass), and the run's git
\* clone runs only from the position after the IP pass.
C20_PassesInFixedOrder ==
  [][/\ (InitIndex(tfPc) > 0 /\ tfPc' # tfPc) =>
          \/ tfPc' = "failed"
          \/ InitIndex(tfPc) < Len(InitOrder) /\ tfPc' = InitOrder[InitIndex(tfPc) + 1]
          \/ tfPc = "allocated" /\ tfPc' = "plan"
     /\ (InitIndex(tfPc') > 0 /\ InitIndex(tfPc') <= 2) => effects' = <<>>
     /\ (InitIndex(tfPc') > 0 /\ InitIndex(tfPc') <= 4) => strConfig' = <<>>
     /\ (InitIndex(tfPc') > 0 /\ InitIndex(tfPc') <= 5) =>
          newInventory' = emptyReserved /\ deletedInventory' = emptyReserved
     /\ (InitIndex(tfPc') > 0 /\ InitIndex(tfPc') <= 6) =>
          newInventory'.ips = <<>> /\ deletedInventory'.ips = <<>>
     /\ (InitIndex(tfPc') > 0) => \A i \in 1..Len(effects') : effects'[i].cmd = "bw"
     /\ (pkPc = "idle" /\ effects' # effects /\ Len(effects') > 0
           /\ effects'[Len(effects')].cmd = "git clone") =>
          tfPc = "allocated"
    ]_vars

\* a run whose module was cloned after the vault session and both allocation passes
C20_Witness ==
  /\ tfPc = "plan"
  /\ effects = <<Effect("bw", TRUE), Effect("git clone", TRUE)>>
  /\ Len(newInventory.vmids) + Len(newInventory.ips) > 0

\* the dotted path of the value when the value is a token of the prefix, else Undefined
tokenPath(value, prefix) ==
  IF /\ Len(value) > Len(prefix) + 2
     /\ SubSeq(value, 1, Len(prefix) + 1) = <<"{">> \o prefix
     /\ value[Len(value)] = "}"
  THEN Some(SubSeq(value, Len(prefix) + 2, Len(value) - 1))
  ELSE Undefined

\* the value a dotted path selects, segment by segment from the root: a key of
\* an object, the item of that name of a collection; Undefined when a segment
\* selects nothing
RECURSIVE selected(_, _)
selected(path, value) ==
  IF Len(path) = 0 THEN Some(value)
  ELSE IF value.t = "array"
  THEN IF findByName(value.v, path[1]) = JsUndefined THEN Undefined
       ELSE selected(Tail(path), findByName(value.v, path[1]))
  ELSE IF value.t = "object" /\ hasKey(value, path[1])
  THEN selected(Tail(path), member(value, path[1]))
  ELSE Undefined

\* the object the references of a pass are looked up in
refRoot(op, cfg) ==
  IF op = "populateInventoryRefs" THEN inventoryObject(refInventory) ELSE configObject(cfg)

refPrefix(op) == IF op = "populateInventoryRefs" THEN inventoryPrefix ELSE configPrefix

\* member i of the configuration is a reference of the pass whose path selects nothing
Dangling(op, cfg, i) ==
  /\ tokenPath(cfg[i], refPrefix(op)) # Undefined
  /\ selected(split(tokenPath(cfg[i], refPrefix(op))[1], <<".">>), refRoot(op, cfg)) = Undefined

\* C21: populateInventoryRefs and populateUpperLevelRefs skip a reference
\* whose path does not resolve: they raise no error and the token is still in
\* the returned document, unchanged.
C21_DanglingRefIsSkipped ==
  (refs.op \in {"populateInventoryRefs", "populateUpperLevelRefs"} /\ refs.n = 1) =>
    \A i \in 1..Len(refs.cfg) :
      Dangling(refs.op, refs.cfg, i) => refs.thrown = "" /\ refs.out[i] = refs.cfg[i]


\* the segments of a vault reference bw:<secret>.<field>..., Undefined for another value
bwPath(value) ==
  IF Len(value) > 3 /\ SubSeq(value, 1, 3) = <<"b", "w", ":">>
  THEN Some(split(SubSeq(value, 4, Len(value)), <<".">>))
  ELSE Undefined

\* the string a vault reference stands for in the list of secrets, Undefined
\* when the secret is not listed, the field path does not exist or the value
\* there is not a string
secretString(path, secrets) ==
  LET bwSecret == findByName(secrets, path[1])
      field == IF bwSecret = JsUndefined THEN Undefined ELSE selected(Tail(path), bwSecret)
  IN IF field # Undefined /\ field[1].t = "string" THEN Some(field[1].s) ELSE Undefined

\* C22: Bw.fill raises no error; a reference whose secret is absent, whose
\* field path does not exist or whose value is not a string stays in the
\* document unchanged, and every other reference is replaced by its string.
C22_UnfillableRefIsSkipped ==
  (refs.op = "fill") =>
    /\ refs.thrown = ""
    /\ \A i \in 1..Len(refs.cfg) :
         bwPath(refs.cfg[i]) # Undefined =>
           refs.out[i] = IF secretString(bwPath(refs.cfg[i])[1], refs.val.v) = Undefined
                         THEN refs.cfg[i]
                         ELSE secretString(bwPath(refs.cfg[i])[1], refs.val.v)[1]

\* the matches a pass finds in the configuration
tokensOf(op, cfg) ==
  CASE op = "populateInventoryRefs" -> matchAllRefs(compact(cfg), inventoryPrefix, 1)
    [] op = "populateUpperLevelRefs" -> matchAllRefs(compact(cfg), configPrefix, 1)
    [] op = "populateVmIds" -> matchAll(stringify(cfg), "vmIdRegex", 1)
    [] op = "populateIpAddresses" -> matchAll(stringify(cfg), "ipRegex", 1)

\* every reference of the pass in the configuration resolves, to a value that
\* is not a reference of the pass again; the inventory has a free VM ID and a
\* free address for every allocation token
Resolvable(op, cfg) ==
  op \in {"populateInventoryRefs", "populateUpperLevelRefs"} =>
    \A i \in 1..Len(cfg) :
      tokenPath(cfg[i], refPrefix(op)) # Undefined =>
        LET value == selected(split(tokenPath(cfg[i], refPrefix(op))[1], <<".">>), refRoot(op, cfg))
        IN /\ value # Undefined
           /\ value[1].t = "string" => tokenPath(value[1].s, refPrefix(op)) = Undefined

\* C23: a pass applied to the document it produced from a fully resolvable
\* input finds no match, returns the same document and adds no entry to
\* newInventory or deletedInventory.
C23_PassIsIdempotent ==
  [][(/\ refs.n = 1
      /\ refs'.n = 2
      /\ refs.op \in {"populateInventoryRefs", "populateUpperLevelRefs", "populateVmIds", "populateIpAddresses"}
      /\ Resolvable(refs.op, refs.cfg))
     => /\ tokensOf(refs.op, refs.out) = <<>>
        /\ refs'.thrown = ""
        /\ refs'.out = refs.out
        /\ refs'.new = refs.new
        /\ refs'.deleted = refs.deleted]_vars

\* C24: an inventory reference that resolves to a number, an object or an
\* array is replaced by that value: the returned document holds, at the
\* token's place, a value equal to the looked-up value.
C24_NonStringValueSubstituted ==
  (refs.op = "populateInventoryRefs" /\ refs.n = 1) =>
    \A i \in 1..Len(refs.cfg) :
      (/\ tokenPath(refs.cfg[i], inventoryPrefix) # Undefined
       /\ ~Dangling(refs.op, refs.cfg, i)
       /\ selected(split(tokenPath(refs.cfg[i], inventoryPrefix)[1], <<".">>),
                   inventoryObject(refInventory))[1].t # "string")
      => /\ refs.thrown = ""
         /\ JsString(refs.out[i]) = selected(split(tokenPath(refs.cfg[i], inventoryPrefix)[1], <<".">>),
                                             inventoryObject(refInventory))[1]

\* C25: getRefValue yields the value its path selects segment by segment (a
\* key of an object, the item of that name of a collection), the gateway
\* string of lan for networks.lan.gateway, and no value, without an error,
\* for a path that cannot be followed.
C25_PathNavigation ==
  (refs.op = "getRefValue") =>
    /\ refs.thrown = ""
    /\ IF selected(split(refs.path, <<".">>), inventoryObject(refInventory)) = Undefined
       THEN refs.val.t \in {"null", "undefined"}
       ELSE refs.val = selected(split(refs.path, <<".">>), inventoryObject(refInventory))[1]
    /\ refs.path = <<"n", "e", "t", "w", "o", "r", "k", "s", ".", "l", "a", "n", ".", "g", "a", "t", "e", "w", "a", "y">> => refs.val = JsString(lanNet.gateway)


\* the tokens a run of the race has bound: to its new entries, and to the
\* reserved entries of the inventory it loaded
raceBindings(p) ==
  {[refId |-> race[p].newInventory.vmids[i].refId, kind |-> "vmid",
    value |-> numToString(race[p].newInventory.vmids[i].vmid, 10)] :
     i \in 1..Len(race[p].newInventory.vmids)}
  \cup {[refId |-> race[p].newInventory.ips[i].refId, kind |-> "ip",
         value |-> race[p].newInventory.ips[i].ip] : i \in 1..Len(race[p].newInventory.ips)}
  \cup {[refId |-> race[p].inventory.reserved.vmids[i].refId, kind |-> "vmid",
         value |-> numToString(race[p].inventory.reserved.vmids[i].vmid, 10)] :
          i \in {j \in 1..Len(race[p].inventory.reserved.vmids) :
                   race[p].inventory.reserved.vmids[j].refId = race[p].config[1]}}
  \cup {[refId |-> race[p].inventory.reserved.ips[i].refId, kind |-> "ip",
         value |-> race[p].inventory.reserved.ips[i].ip] :
          i \in {j \in 1..Len(race[p].inventory.reserved.ips) :
                   race[p].inventory.reserved.ips[j].refId = race[p].config[1]}}

\* C26: nothing detects or prevents the race of two runs on one inventory
\* file: a run loads whatever the file holds, wherever the other run is,
\* no step writes the file, and two runs that each allocate for a token of
\* their own of the same kind bind the two tokens to the same value.
C26_RaceIsNotPrevented ==
  /\ [][/\ file' = file
        /\ \A p \in RaceRuns :
             (race # <<>> /\ race[p].pc = "loadInventory" /\ race'[p] # race[p]) =>
               IF loadInventory(file) = Undefined THEN race'[p].pc = "exit1"
               ELSE /\ race'[p].pc = "populateBitwardenRefs"
                    /\ race'[p].inventory = loadInventory(file)[1]]_vars
  /\ [](race # <<>> =>
          \A b \in raceBindings(1), c \in raceBindings(2) :
            (/\ b.kind = c.kind
             /\ b.refId # c.refId
             /\ \A p \in RaceRuns : Len(race[p].newInventory.vmids) + Len(race[p].newInventory.ips) > 0)
            => b.value = c.value)

\* both runs have applied, with two different tokens bound to the same VM ID
C26_Witness ==
  /\ race # <<>>
  /\ \A p \in RaceRuns : race[p].applied /\ race[p].pc = "exit1"
  /\ \E b \in raceBindings(1), c \in raceBindings(2) :
       b.kind = "vmid" /\ b.refId # c.refId /\ b.value = c.value


\* the vmids of the entries of a list other than entry i
OtherVmIds(list, i) == {list[j].vmid : j \in (1..Len(list)) \ {i}}

\* C27: the templates list of the inventory file holds at most one entry per
\* name; a build that writes the file has given its template a vmid of
\* 300..399 that no other template and no reserved entry holds, and it writes
\* only after the packer process has succeeded.
C27_TemplatesStayUnique ==
  /\ [](file.kind = "json" =>
          \A i, j \in 1..Len(file.data.templates) :
            file.data.templates[i].name = file.data.templates[j].name => i = j)
  /\ [][(pkPc = "build" /\ file' # file) =>
          /\ Ran("packer build", TRUE)'
          /\ \E i \in 1..Len(file'.data.templates) :
               /\ file'.data.templates[i].name = pkConfig[1]
               /\ file'.data.templates[i].vmid \in 300..399
               /\ file'.data.templates[i].vmid \notin OtherVmIds(file'.data.templates, i)
               /\ file'.data.templates[i].vmid \notin
                    {file'.data.reserved.vmids[j].vmid : j \in 1..Len(file'.data.reserved.vmids)}]_vars

\* two builds: a new template, then the rebuild of the template the file came with
C27_Witness ==
  /\ pkPc = "exit0"
  /\ file.kind = "json"
  /\ Len(file.data.templates) = 2
  /\ \E i \in 1..Len(file.data.templates) :
       file.data.templates[i].name = templateEntry(300).name /\ file.data.templates[i].vmid # 300
  /\ Len(file.data.reserved.vmids) > 0


\* the numbers of the four octets of a dotted address
Octets(addr) == [i \in 1..4 |-> parseInt(split(addr, <<".">>)[i], 10)]

\* bit k (1 the highest, 32 the lowest) of a dotted address
AddressBit(addr, k) == (Octets(addr)[((k - 1) \div 8) + 1] \div (2^(7 - ((k - 1) % 8)))) % 2

\* the two addresses agree in their first len bits
SamePrefix(a, b, len) == \A k \in 1..len : AddressBit(a, k) = AddressBit(b, k)

\* the listed IPv4 addresses on the subnet <base>/<len>, by position in the listing
OnSubnet(listing, subnet) ==
  {i \in 1..Len(listing) :
     /\ listing[i].family = <<"i", "n", "e", "t">>
     /\ SamePrefix(listing[i].addr, split(subnet, <<"/">>)[1], parseInt(split(subnet, <<"/">>)[2], 10))}

\* C28: getHttpIp returns the first listed IPv4 address that agrees with the
\* network's base address in the first <prefix length> bits, for prefix
\* lengths 0 to 32 and also when the top bit is set; it throws when the
\* network is not in the inventory and when no listed address agrees.
C28_FirstAddressOnSubnet ==
  hostIp # <<>> /\ hostIp.called =>
    IF findNetwork(hostIp.networkName, httpInventory) = Undefined
    THEN hostIp.thrown = "NetworkNotFound" /\ hostIp.ret = Undefined
    ELSE LET subnet == findNetwork(hostIp.networkName, httpInventory)[1].subnet
         IN (Len(split(subnet, <<"/">>)) = 2 /\ parseInt(split(subnet, <<"/">>)[2], 10) \in 0..32) =>
              IF OnSubnet(hostIp.listing, subnet) = {}
              THEN hostIp.thrown = "NoValidIp" /\ hostIp.ret = Undefined
              ELSE /\ hostIp.thrown = ""
                   /\ hostIp.ret = Some(hostIp.listing[
                        CHOOSE i \in OnSubnet(hostIp.listing, subnet) :
                          \A j \in OnSubnet(hostIp.listing, subnet) : i <= j].addr)

\* the second listed address is returned, on a network with the top bit set
C28_Witness ==
  /\ hostIp # <<>>
  /\ hostIp.called
  /\ Len(hostIp.listing) = 2
  /\ hostIp.ret = Some(hostIp.listing[2].addr)
  /\ Octets(hostIp.listing[2].addr)[1] >= 128
  /\ hostIp.listing[1].family = <<"i", "n", "e", "t">>


\* ensureIsoOnProxmox has settled
IsoSettled == isoPoll.pc \in {"returned", "thrown"}

\* what holds in every state of a call of ensureIsoOnProxmox
IsoBounded ==
  /\ isoPoll.first = "present" =>
       isoPoll.pc = "returned" /\ isoPoll.downloads = <<>> /\ isoPoll.waits = <<>> /\ isoPoll.results = <<>>
  /\ Len(isoPoll.downloads) <= 1
  /\ (isoPoll.waits # <<>> \/ isoPoll.results # <<>>) =>
       isoPoll.first = "absent" /\ Len(isoPoll.downloads) = 1
  /\ Len(isoPoll.results) <= 24
  /\ Len(isoPoll.waits) = Len(isoPoll.results) + (IF isoPoll.pc = "poll" THEN 1 ELSE 0)
  /\ \A i \in 1..Len(isoPoll.waits) : isoPoll.waits[i] = 5000
  /\ \A i \in 1..(Len(isoPoll.results) - 1) : isoPoll.results[i] = "absent"
  /\ (isoPoll.results # <<>> /\ isoPoll.results[Len(isoPoll.results)] = "present") =>
       isoPoll.pc = "returned"
  /\ (Len(isoPoll.results) = 24 /\ isoPoll.results[24] = "absent") => isoPoll.pc = "returned"

\* C29: ensureIsoOnProxmox always settles; a present ISO means no download and
\* no poll; otherwise the download is requested once and the ISO is checked
\* again at most 24 times, 5000 ms apart, never after a check that reported it
\* present, and 24 checks reporting it absent end in a return, not an error.
C29_BoundedPoll == (isoPoll # <<>>) => ([]IsoBounded /\ <>IsoSettled)

\* all 24 checks reported the ISO absent and the call returned
C29_Witness ==
  /\ isoPoll # <<>>
  /\ isoPoll.pc = "returned"
  /\ Len(isoPoll.results) = 24
  /\ isoPoll.results[24] = "absent"
  /\ Len(isoPoll.waits) = 24


\* the names of the calls made on the vault, in order
VaultCalls == [i \in 1..Len(vault.calls) |-> vault.calls[i].cmd]

\* the position of the first call that failed
FirstFailure == CHOOSE i \in 1..Len(vault.calls) :
                  ~vault.calls[i].ok /\ \A j \in 1..(i - 1) : vault.calls[j].ok

\* C30: populateBitwardenRefs resolves after login, unlock, list,
\* fill(inventory), fill(config), lock, logout in this order; when a call fails
\* it attempts lock and then logout before it rejects, and it rejects with the
\* error of the call that failed, also when lock or logout of the cleanup fail.
C30_SessionIsClosed ==
  (vault # <<>> /\ vault.settled # "pending" /\ vault.calls # <<>>) =>
    IF vault.settled = "resolved"
    THEN /\ VaultCalls = <<"login", "unlock", "list", "fill(inventory)", "fill(config)", "lock", "logout">>
         /\ \A i \in 1..Len(vault.calls) : vault.calls[i].ok
    ELSE /\ \E i \in 1..Len(vault.calls) : ~vault.calls[i].ok
         /\ vault.carried = [cmd |-> vault.calls[FirstFailure].cmd, at |-> FirstFailure]
         /\ SubSeq(VaultCalls, FirstFailure + 1, Len(VaultCalls)) = <<"lock", "logout">>

\* the same without the call of logout in the cleanup
C30_Rest ==
  (vault # <<>> /\ vault.settled # "pending" /\ vault.calls # <<>>) =>
    IF vault.settled = "resolved"
    THEN /\ VaultCalls = <<"login", "unlock", "list", "fill(inventory)", "fill(config)", "lock", "logout">>
         /\ \A i \in 1..Len(vault.calls) : vault.calls[i].ok
    ELSE /\ \E i \in 1..Len(vault.calls) : ~vault.calls[i].ok
         /\ vault.carried = [cmd |-> vault.calls[FirstFailure].cmd, at |-> FirstFailure]
         /\ SubSeq(VaultCalls, FirstFailure + 1, Len(VaultCalls)) \in {<<"lock", "logout">>, <<"lock">>}
         /\ SubSeq(VaultCalls, FirstFailure + 1, Len(VaultCalls)) = <<"lock">> => ~vault.calls[Len(vault.calls)].ok

====
